---------------------------- MODULE Spec2Model ----------------------------
(***************************************************************************)
(* A model of the bt-rust-dht node: routing table (node, bucket, table,    *)
(* closest-nodes iterator), announce storage, transaction-id generators    *)
(* and the bootstrap state machine.                                        *)
(*                                                                         *)
(* Conventions.                                                            *)
(*  - An Instant is kept as the time elapsed since it (its age, in         *)
(*    milliseconds), NONE when the Option is None.  The clock advancing by *)
(*    d adds d to every age.  Ages saturate at the largest threshold any   *)
(*    comparison uses, which leaves every comparison unchanged.            *)
(*  - Widths and sizes that the code fixes at values far beyond what can   *)
(*    be enumerated (160-bit ids, 8-slot buckets, 500 stored items, 40+24  *)
(*    bit transaction ids) are scaled to the bounds named below.           *)
(***************************************************************************)
EXTENDS Integers, Sequences, FiniteSets, TLC

NONE == -1

(***************************************************************************)
(* Bounds of the model.                                                    *)
(***************************************************************************)
\* width of an id in bits (ID_LEN * 8 = 160 in id.rs)
IdBits == 6
\* slots of a bucket (MAX_BUCKET_SIZE = 8 in bucket.rs)
BucketSlots == 2
\* RoutingTable.add_node calls explored from a fresh table
MaxAdds == 3
\* Bucket.add_node calls explored from a fresh bucket
MaxBucketAdds == 4
\* items the announce storage holds (MAX_ITEMS_STORED = 500 in storage.rs)
StoredItems == 2
\* clock steps explored on the announce storage
MaxStorageTicks == 2
\* width of an action id in bits (ACTION_ID_BYTES * 8 = 40 in transaction.rs)
ActionIdBits == 3
\* width of a message id in bits (MESSAGE_ID_BYTES * 8 = 24 in transaction.rs)
MessageIdBits == 6
\* width of a timer entry id in bits (u64 in timer.rs)
TimerIdBits == 7
\* bootstrap attempts counted before the counter is kept at this value
MaxAttempts == 10
\* local_request calls counted in refresh_requests of a stand-alone Node
MaxRefreshRequests == 3
\* milliseconds explored on a stand-alone Timer
MaxTimerClock == 3
\* values of a byte (256 in the code)
ByteBase == 2
\* bytes of a node id in a compact contact (NODE_ID_LEN = 20 in id.rs)
CompactIdLen == 1
\* bytes of an IPv4 address (4) and of an IPv6 address (16)
Ipv4Len == 1
Ipv6Len == 2
\* contacts in the values of a message
MaxContacts == 2
\* nodes the handler adds to the routing table of a stand-alone bootstrap
MaxGoodNodes == 10
\* calls made on a stand-alone bootstrap
MaxBootCalls == 32
\* calls made on a routing table whose nodes collide
MaxSplitAdds == 4
\* calls of continue_refresh made on a stand-alone TableRefresh
MaxRefreshTicks == 8

VARIABLES
  table,        \* RoutingTable: [buckets, node_id]
  adds,         \* number of calls made on table
  table_last,   \* the last call made on table: [op, node, before]
  bucket,       \* a stand-alone Bucket (its slot array)
  bucket_adds,  \* number of calls made on the bucket and on its nodes
  bucket_last,  \* the last Bucket.add_node call: [node, before, after, ret]
  storage,      \* AnnounceStorage.storage: info hash -> items
  expires,      \* AnnounceStorage.expires
  storage_ticks,\* number of clock steps made on the storage
  storage_last, \* the add_item / find_items call just made and what it returned
  last_added,   \* per (info hash, address): time since its last accepted add
  aid_gen,      \* an AIDGenerator: [next_alloc, current_index, action_ids]
  mid_gen,      \* the MIDGenerator it returned last: <<>> or <<generator>>
  aid_seen,     \* the action ids handed out since the generator last wrapped
  aid_count,    \* how many action ids were handed out since then
  aid_wrapped,  \* the AIDGenerator has wrapped
  mid_seen,     \* the message ids mid_gen handed out since it last wrapped
  mid_count,    \* how many message ids it handed out since then
  mid_wrapped,  \* mid_gen has wrapped
  tid_seen,     \* the transaction ids (as u64) mid_gen built since it last wrapped
  tid_last,     \* the last TransactionID built: <<>> or <<[tid, message_id]>>
  handler,      \* what the handler owns: [bootstrap, routing_table, timer, socket]
  commands,     \* the command queue of the handler
  running,      \* the handler task has been spawned
  bootstrapped, \* the call of bootstrapped(None): NotCalled, Waiting or True
  search,       \* the call of search(): [state, yielded]
  node_now,     \* a stand-alone Node
  node_last,    \* the last call made on node_now: [op, before]
  codec_msg,    \* the Message encoded last: <<message>>, <<>> when none was
  codec_wire,   \* what encode returned, or the dictionary received
  codec_decoded,\* what decode returned for codec_wire
  timer_now,    \* a stand-alone Timer
  timer_handles,\* the handles schedule returned: [key, value, state], state
                \* being pending, cancelled or yielded
  timer_last,   \* the last call made on timer_now: [op, key, held, ret, before]
  timer_clock,  \* milliseconds passed on timer_now
  boot_w,       \* what a stand-alone TableBootstrap works on: [bootstrap,
                \* routing_table, timer, socket]
  boot_phase,   \* built or started
  boot_calls,   \* number of calls made on boot_w.bootstrap
  boot_env,     \* the network of boot_w: [dns, sent, answered], what the router
                \* resolves to, the addresses a send succeeds for and whether
                \* requests are answered
  boot_failed,  \* attempts in a row that ended without enough good nodes
  boot_last,    \* the last call made on boot_w: [op, ret, before]
  refresh_w,    \* what a stand-alone TableRefresh works on: [refresh,
                \* routing_table, timer, socket]
  refresh_calls,\* number of continue_refresh calls made on refresh_w
  refresh_last, \* the last call made on refresh_w: [op, before, index, nodes]
  node_requests \* local_request calls made on node_now while it was not Good, since
                \* it was built or its last response was recorded

routingVars == <<table, adds, table_last>>
bucketVars == <<bucket, bucket_adds, bucket_last>>
storageVars == <<storage, expires, storage_ticks, storage_last, last_added>>
tidVars ==
  <<aid_gen, mid_gen, aid_seen, aid_count, aid_wrapped, mid_seen, mid_count,
    mid_wrapped, tid_seen, tid_last>>
handlerVars == <<handler, commands, running, bootstrapped, search>>
nodeVars == <<node_now, node_last, node_requests>>
timerVars == <<timer_now, timer_handles, timer_last, timer_clock>>
codecVars == <<codec_msg, codec_wire, codec_decoded>>
bootVars == <<boot_w, boot_phase, boot_calls, boot_env, boot_failed, boot_last>>
refreshVars == <<refresh_w, refresh_calls, refresh_last>>
vars == <<routingVars, bucketVars, storageVars, tidVars, handlerVars, nodeVars, timerVars, codecVars, bootVars, refreshVars>>
exceptRouting == <<bucketVars, storageVars, tidVars, handlerVars, nodeVars, timerVars, codecVars, bootVars, refreshVars>>
exceptBucket == <<routingVars, storageVars, tidVars, handlerVars, nodeVars, timerVars, codecVars, bootVars, refreshVars>>
exceptStorage == <<routingVars, bucketVars, tidVars, handlerVars, nodeVars, timerVars, codecVars, bootVars, refreshVars>>
exceptTid == <<routingVars, bucketVars, storageVars, handlerVars, nodeVars, timerVars, codecVars, bootVars, refreshVars>>
exceptHandler == <<routingVars, bucketVars, storageVars, tidVars, nodeVars, timerVars, codecVars, bootVars, refreshVars>>
exceptNode == <<routingVars, bucketVars, storageVars, tidVars, handlerVars, timerVars, codecVars, bootVars, refreshVars>>
exceptTimer ==
  <<routingVars, bucketVars, storageVars, tidVars, handlerVars, nodeVars, codecVars,
    bootVars, refreshVars>>
exceptCodec ==
  <<routingVars, bucketVars, storageVars, tidVars, handlerVars, nodeVars, timerVars,
    bootVars, refreshVars>>
exceptBoot ==
  <<routingVars, bucketVars, storageVars, tidVars, handlerVars, nodeVars, timerVars,
    codecVars, refreshVars>>
exceptRefresh ==
  <<routingVars, bucketVars, storageVars, tidVars, handlerVars, nodeVars, timerVars,
    codecVars, bootVars>>

(***************************************************************************)
(* id.rs                                                                   *)
(***************************************************************************)
Pow2(n) == 2 ^ n

Ids == 0 .. (Pow2(IdBits) - 1)

RECURSIVE BitXorW(_, _, _)
BitXorW(a, b, w) ==
  IF w = 0 THEN 0
  ELSE (((a % 2) + (b % 2)) % 2) + (2 * BitXorW(a \div 2, b \div 2, w - 1))

\* impl BitXor for Id
bitxor(a, b) == BitXorW(a, b, IdBits)

\* Id::leading_zeros: the number of leading zero bits, IdBits for the zero id
leading_zeros(x) ==
  IF x = 0 THEN IdBits
  ELSE CHOOSE k \in 0 .. (IdBits - 1) :
         Pow2(IdBits - 1 - k) <= x /\ x < Pow2(IdBits - k)

\* Id::flip_bit: bit 0 is the most significant one
flip_bit(id, index) == bitxor(id, Pow2(IdBits - 1 - index))

(***************************************************************************)
(* routing/node.rs                                                         *)
(***************************************************************************)
MAX_LAST_SEEN_MINS == 15
MAX_REFRESH_REQUESTS == 2

\* Duration::from_secs(MAX_LAST_SEEN_MINS * 60), in milliseconds
LastSeen == MAX_LAST_SEEN_MINS * 60 * 1000
\* Duration::from_secs(30) of recently_requested_from, in milliseconds
RecentlyRequested == 30 * 1000
\* ages saturate here: no comparison tells larger ages apart
AgeCap == LastSeen

\* enum NodeStatus, ordered Bad < Questionable < Good
Bad == 0
Questionable == 1
Good == 2

handle(n) == <<n.id, n.addr>>

as_good(id, addr) ==
  [id |-> id, addr |-> addr, last_response |-> 0, last_request |-> NONE,
   last_local_request |-> NONE, refresh_requests |-> 0]

as_questionable(id, addr) ==
  [id |-> id, addr |-> addr, last_response |-> LastSeen, last_request |-> NONE,
   last_local_request |-> NONE, refresh_requests |-> 0]

as_bad(id, addr) ==
  [id |-> id, addr |-> addr, last_response |-> NONE, last_request |-> NONE,
   last_local_request |-> NONE, refresh_requests |-> 0]

\* Node::status
status(n) ==
  IF n.last_response = NONE THEN Bad
  ELSE IF n.last_response < LastSeen THEN Good
  ELSE IF n.refresh_requests >= MAX_REFRESH_REQUESTS THEN Bad
  ELSE IF n.last_request # NONE /\ n.last_request < LastSeen THEN Good
  ELSE Questionable

is_ping_able(n) == status(n) = Good \/ status(n) = Questionable

\* an update that takes the other node whole whenever it takes anything
update_overwriting(self, other) ==
  IF status(self) = Good /\ status(other) # Good THEN self
  ELSE IF status(self) = status(other) /\ status(self) # Good THEN self
  ELSE IF status(self) = Questionable /\ status(other) = Bad THEN self
  ELSE other

\* Node::update
update(self, other) ==
  LET s == status(self)
      o == status(other)
  IN  IF s = Good /\ o = Good
        THEN [self EXCEPT !.last_response = other.last_response,
                          !.refresh_requests = 0]
      ELSE IF s = Questionable /\ o = Good THEN other
      ELSE IF s = Bad /\ o = Good THEN other
      ELSE IF s = Bad /\ o = Questionable THEN other
      ELSE self

\* a local_request that counts the request whatever the status of the node
local_request_counting_good(n) ==
  [n EXCEPT !.last_local_request = 0, !.refresh_requests = n.refresh_requests + 1]

\* Node::local_request (usize::saturating_add never saturates within reach)
local_request(n) ==
  LET m == [n EXCEPT !.last_local_request = 0]
  IN  IF status(m) # Good
        THEN [m EXCEPT !.refresh_requests = m.refresh_requests + 1]
        ELSE m

\* Node::remote_request
remote_request(n) == [n EXCEPT !.last_request = 0]

\* Node::recently_requested_from
recently_requested_from(n) ==
  n.last_local_request # NONE /\ n.last_local_request < RecentlyRequested

\* the clock advancing by d, seen from one Instant and from one Node
AgeBy(t, d) == IF t = NONE THEN NONE ELSE IF t + d > AgeCap THEN AgeCap ELSE t + d

NodeElapse(n, d) ==
  [n EXCEPT !.last_response = AgeBy(n.last_response, d),
            !.last_request = AgeBy(n.last_request, d),
            !.last_local_request = AgeBy(n.last_local_request, d)]

(***************************************************************************)
(* routing/bucket.rs                                                       *)
(***************************************************************************)
MAX_BUCKET_SIZE == BucketSlots

\* the placeholder handle of Bucket::new: id 0 at 127.0.0.1:0
PlaceholderAddr == 0

\* Bucket::new
Bucket_new == [i \in 1 .. MAX_BUCKET_SIZE |-> as_bad(0, PlaceholderAddr)]

\* Iterator::position: the first index satisfying P, 0 when there is none
Position(b, P(_)) ==
  IF \E i \in 1 .. Len(b) : P(b[i])
    THEN CHOOSE i \in 1 .. Len(b) : P(b[i]) /\ \A j \in 1 .. (i - 1) : ~P(b[j])
    ELSE 0

\* Bucket::ping_able_nodes
ping_able_nodes(b) == SelectSeq(b, is_ping_able)

\* an add_node that also replaces slots of equal status
Bucket_add_node_replacing_equal(b, new_node) ==
  LET new_node_status == status(new_node)
      SameHandle(x) == handle(x) = handle(new_node)
      Lower(x) == status(x) <= new_node_status
      index == Position(b, SameHandle)
      replace_index == Position(b, Lower)
  IN  IF new_node_status = Bad THEN [ok |-> TRUE, nodes |-> b]
      ELSE IF index # 0
        THEN [ok |-> TRUE, nodes |-> [b EXCEPT ![index] = update(b[index], new_node)]]
      ELSE IF replace_index # 0
        THEN [ok |-> TRUE, nodes |-> [b EXCEPT ![replace_index] = new_node]]
      ELSE [ok |-> FALSE, nodes |-> b]

\* an add_node that does not look for the handle of the incoming node
Bucket_add_node_blind(b, new_node) ==
  LET new_node_status == status(new_node)
      Lower(x) == status(x) < new_node_status
      replace_index == Position(b, Lower)
  IN  IF new_node_status = Bad THEN [ok |-> TRUE, nodes |-> b]
      ELSE IF replace_index # 0
        THEN [ok |-> TRUE, nodes |-> [b EXCEPT ![replace_index] = new_node]]
      ELSE [ok |-> FALSE, nodes |-> b]

\* Bucket::add_node: the returned flag and the slot array afterwards
Bucket_add_node(b, new_node) ==
  LET new_node_status == status(new_node)
      SameHandle(x) == handle(x) = handle(new_node)
      Lower(x) == status(x) < new_node_status
      index == Position(b, SameHandle)
      replace_index == Position(b, Lower)
  IN  IF new_node_status = Bad THEN [ok |-> TRUE, nodes |-> b]
      ELSE IF index # 0
        THEN [ok |-> TRUE, nodes |-> [b EXCEPT ![index] = update(b[index], new_node)]]
      ELSE IF replace_index # 0
        THEN [ok |-> TRUE, nodes |-> [b EXCEPT ![replace_index] = new_node]]
      ELSE [ok |-> FALSE, nodes |-> b]

BucketElapse(b, d) == [i \in 1 .. Len(b) |-> NodeElapse(b[i], d)]

(***************************************************************************)
(* routing/table.rs                                                        *)
(***************************************************************************)
MAX_BUCKETS == IdBits

\* RoutingTable::new
RoutingTable_new(node_id) == [buckets |-> <<Bucket_new>>, node_id |-> node_id]

leading_bit_count(local_node, remote_node) ==
  leading_zeros(bitxor(local_node, remote_node))

\* a can_split_bucket that lets any bucket but the 160th split
can_split_bucket_any(num_buckets, bucket_index) ==
  num_buckets < MAX_BUCKETS /\ bucket_index # MAX_BUCKETS - 1

can_split_bucket(num_buckets, bucket_index) ==
  bucket_index = num_buckets - 1 /\ bucket_index # MAX_BUCKETS - 1

\* a placement that ignores the ideal index
bucket_placement_last(num_same_bits, num_buckets) == num_buckets - 1

bucket_placement(num_same_bits, num_buckets) ==
  IF num_same_bits >= num_buckets THEN num_buckets - 1 ELSE num_same_bits

\* RoutingTable::bucket_index_for_node
bucket_index_for_node(t, node_id) ==
  LET bucket_index == leading_bit_count(t.node_id, node_id)
  IN  IF bucket_index < Len(t.buckets) THEN bucket_index ELSE Len(t.buckets) - 1

RECURSIVE add_node(_, _)
RECURSIVE bucket_node(_, _, _)
RECURSIVE split_bucket(_, _)
RECURSIVE AddAll(_, _, _)

\* the loop of split_bucket: add_node for every node of the popped bucket
AddAll(t, nodes, i) ==
  IF i > Len(nodes) THEN t ELSE AddAll(add_node(t, nodes[i]), nodes, i + 1)

\* RoutingTable::split_bucket: the returned flag and the table afterwards
split_bucket(t, bucket_index) ==
  IF ~can_split_bucket(Len(t.buckets), bucket_index)
    THEN [ok |-> FALSE, table |-> t]
    ELSE LET n == Len(t.buckets)
             popped == t.buckets[n]
             pushed == [t EXCEPT !.buckets =
                          SubSeq(t.buckets, 1, n - 1) \o <<Bucket_new, Bucket_new>>]
         IN  [ok |-> TRUE, table |-> AddAll(pushed, popped, 1)]

\* RoutingTable::bucket_node
bucket_node(t, node, num_same_bits) ==
  LET bucket_index == bucket_placement(num_same_bits, Len(t.buckets))
      r == Bucket_add_node(t.buckets[bucket_index + 1], node)
  IN  IF r.ok
        THEN [t EXCEPT !.buckets[bucket_index + 1] = r.nodes]
        ELSE LET s == split_bucket(t, bucket_index)
             IN  IF s.ok THEN bucket_node(s.table, node, num_same_bits) ELSE t

\* an add_node without the checks made outside of the recursion
add_node_unchecked(t, node) ==
  bucket_node(t, node, leading_bit_count(t.node_id, node.id))

\* RoutingTable::add_node
add_node(t, node) ==
  IF status(node) = Bad THEN t
  ELSE LET num_same_bits == leading_bit_count(t.node_id, node.id)
       IN  IF num_same_bits # MAX_BUCKETS
             THEN bucket_node(t, node, num_same_bits)
             ELSE t

TableElapse(t, d) ==
  [t EXCEPT !.buckets = [i \in 1 .. Len(t.buckets) |-> BucketElapse(t.buckets[i], d)]]

\* is_good_node of table.rs: Good or Questionable
is_good_node(n) == status(n) = Good \/ status(n) = Questionable

\* index_is_in_bounds, on a checked index (NONE for a failed checked_add/sub)
index_is_in_bounds(length, checked_index) ==
  checked_index # NONE /\ checked_index < length

checked_sub(a, b) == IF a - b < 0 THEN NONE ELSE a - b
checked_add(a, b) == a + b

\* next_bucket_index: NONE when all the buckets have been visited
next_bucket_index(num_buckets, start_index, current_index) ==
  IF current_index < start_index THEN
    LET offset == (start_index - current_index) + 1
        right_index == checked_add(start_index, offset)
        left_index == checked_sub(current_index, 1)
    IN  IF index_is_in_bounds(num_buckets, left_index) THEN left_index
        ELSE IF index_is_in_bounds(num_buckets, right_index) THEN right_index
        ELSE NONE
  ELSE IF current_index = start_index THEN
    LET right_index == checked_add(start_index, 1)
        left_index == checked_sub(start_index, 1)
    IN  IF index_is_in_bounds(num_buckets, right_index) THEN right_index
        ELSE IF index_is_in_bounds(num_buckets, left_index) THEN left_index
        ELSE NONE
  ELSE
    LET offset == current_index - start_index
        left_index == checked_sub(start_index, offset)
        right_index == checked_add(current_index, 1)
    IN  IF index_is_in_bounds(num_buckets, left_index) THEN left_index
        ELSE IF index_is_in_bounds(num_buckets, right_index) THEN right_index
        ELSE NONE

\* precomputed_assorted_nodes: (ideal index, node, returned before) per slot of
\* the last bucket; the empty array stands for None (the table has all its
\* buckets), which next() treats alike
precomputed_assorted_nodes(buckets, self_node_id) ==
  IF Len(buckets) = MAX_BUCKETS THEN <<>>
  ELSE LET assorted_bucket == buckets[Len(buckets)]
       IN  [i \in 1 .. Len(assorted_bucket) |->
              [ideal |-> leading_bit_count(self_node_id, assorted_bucket[i].id),
               node |-> assorted_bucket[i],
               returned |-> FALSE]]

\* a bucket_iterator that takes the last bucket for a sorted one
bucket_iterator_all(buckets, index) ==
  IF index < Len(buckets) THEN SelectSeq(buckets[index + 1], is_good_node) ELSE <<>>

\* bucket_iterator: the good-node filter over the sorted bucket at index; the
\* empty iterator stands for None (no sorted bucket at that index), which
\* next() treats alike
bucket_iterator(buckets, index) ==
  LET sorted == IF Len(buckets) = MAX_BUCKETS THEN Len(buckets) ELSE Len(buckets) - 1
  IN  IF index < sorted THEN SelectSeq(buckets[index + 1], is_good_node) ELSE <<>>

\* ClosestNodes::new
ClosestNodes_new(buckets, self_node_id, other_node_id) ==
  LET start_index == leading_bit_count(self_node_id, other_node_id)
  IN  [buckets |-> buckets,
       current_iter |-> bucket_iterator(buckets, start_index),
       current_index |-> start_index,
       start_index |-> start_index,
       assorted_nodes |-> precomputed_assorted_nodes(buckets, self_node_id)]

\* ClosestNodes::next: the item (<<node>>, or <<>> for None) and the iterator
\* afterwards
RECURSIVE ClosestNodes_next(_)
ClosestNodes_next(it) ==
  IF it.current_iter # <<>>
    THEN [item |-> <<Head(it.current_iter)>>,
          it |-> [it EXCEPT !.current_iter = Tail(it.current_iter)]]
  ELSE
    LET nodes == it.assorted_nodes
        Wanted(tup) ==
          is_good_node(tup.node) /\ tup.ideal = it.current_index /\ ~tup.returned
        found == Position(nodes, Wanted)
    IN  IF found # 0
          THEN [item |-> <<nodes[found].node>>,
                it |-> [it EXCEPT !.assorted_nodes[found].returned = TRUE]]
          ELSE LET new_index ==
                     next_bucket_index(MAX_BUCKETS, it.start_index, it.current_index)
               IN  IF new_index = NONE
                     THEN [item |-> <<>>, it |-> it]
                     ELSE ClosestNodes_next(
                            [it EXCEPT !.current_index = new_index,
                                       !.current_iter =
                                         bucket_iterator(it.buckets, new_index)])

\* the items an iterator yields until it returns None
RECURSIVE Drain(_)
Drain(it) ==
  LET r == ClosestNodes_next(it)
  IN  IF r.item = <<>> THEN <<>> ELSE r.item \o Drain(r.it)

\* RoutingTable::closest_nodes, collected
closest_nodes(t, node_id) == Drain(ClosestNodes_new(t.buckets, t.node_id, node_id))

\* RoutingTable::num_good_nodes
num_good_nodes(t) ==
  LET IsGood(n) == status(n) = Good
  IN  Len(SelectSeq(closest_nodes(t, t.node_id), IsGood))

\* RoutingTable::num_questionable_node
num_questionable_node(t) ==
  LET IsQ(n) == status(n) = Questionable
  IN  Len(SelectSeq(closest_nodes(t, t.node_id), IsQ))


(***************************************************************************)
(* storage.rs                                                              *)
(***************************************************************************)
MAX_ITEMS_STORED == StoredItems

\* Duration::from_secs(25 * 60 * 60), in milliseconds
EXPIRATION_TIME == 25 * 60 * 60 * 1000

\* the age of an ItemExpiration saturates just past EXPIRATION_TIME
StorageAgeCap == EXPIRATION_TIME + 1

\* AnnounceStorage::new
AnnounceStorage_new == [storage |-> <<>>, expires |-> <<>>]

\* ItemExpiration::new: inserted = Instant::now()
ItemExpiration_new(info_hash, address) ==
  [address |-> address, inserted |-> 0, info_hash |-> info_hash]

\* AnnounceItem::new
AnnounceItem_new(info_hash, address) ==
  [expiration |-> ItemExpiration_new(info_hash, address)]

\* impl PartialEq for ItemExpiration
ItemExpiration_eq(x, y) == x.address = y.address /\ x.info_hash = y.info_hash

\* an is_expired that lets an item live through its 25th hour's last instant
is_expired_late(e) == e.inserted > EXPIRATION_TIME

\* ItemExpiration::is_expired, at the current time
is_expired(e) == e.inserted >= EXPIRATION_TIME

\* Vec::retain
Retain(seq, Keep(_)) == SelectSeq(seq, Keep)

\* HashMap::remove
MapRemove(map, key) == [k \in (DOMAIN map) \ {key} |-> map[k]]

\* HashMap insert / replace
MapPut(map, key, val) ==
  [k \in (DOMAIN map) \cup {key} |-> IF k = key THEN val ELSE map[k]]

\* the number of leading items of expires that are expired
RECURSIVE NumExpired(_)
NumExpired(exp) ==
  IF exp # <<>> /\ is_expired(Head(exp)) THEN 1 + NumExpired(Tail(exp)) ELSE 0

\* the drain loop of remove_expired_items over the expired items
RECURSIVE DrainExpired(_, _)
DrainExpired(map, drained) ==
  IF drained = <<>> THEN map
  ELSE LET item_expiration == Head(drained)
           info_hash == item_expiration.info_hash
           Keep(a) == ~ItemExpiration_eq(a.expiration, item_expiration)
       IN  IF info_hash \in DOMAIN map
             THEN LET items == Retain(map[info_hash], Keep)
                  IN  IF items = <<>>
                        THEN DrainExpired(MapRemove(map, info_hash), Tail(drained))
                        ELSE DrainExpired(MapPut(map, info_hash, items), Tail(drained))
             ELSE DrainExpired(map, Tail(drained))

\* a remove_expired_items that prunes the expiration list only
remove_expired_items_list_only(st) ==
  [storage |-> st.storage,
   expires |-> SubSeq(st.expires, NumExpired(st.expires) + 1, Len(st.expires))]

\* AnnounceStorage::remove_expired_items
remove_expired_items(st) ==
  LET num_expired_items == NumExpired(st.expires)
  IN  [storage |-> DrainExpired(st.storage, SubSeq(st.expires, 1, num_expired_items)),
       expires |-> SubSeq(st.expires, num_expired_items + 1, Len(st.expires))]

\* an insert_contact that admits one item more
insert_contact_one_more(st, item) ==
  LET item_info_hash == item.expiration.info_hash
      already_in_list ==
        /\ item_info_hash \in DOMAIN st.storage
        /\ \E i \in 1 .. Len(st.storage[item_info_hash]) :
             ItemExpiration_eq(st.storage[item_info_hash][i].expiration, item.expiration)
  IN  IF already_in_list THEN [res |-> "SomeTrue", st |-> st]
      ELSE IF Len(st.expires) <= MAX_ITEMS_STORED
        THEN [res |-> "SomeFalse",
              st |-> [st EXCEPT !.storage =
                        IF item_info_hash \in DOMAIN st.storage
                          THEN MapPut(st.storage, item_info_hash,
                                      Append(st.storage[item_info_hash], item))
                          ELSE MapPut(st.storage, item_info_hash, <<item>>)]]
      ELSE [res |-> "None", st |-> st]

\* AnnounceStorage::insert_contact: Some(true), Some(false) or None
insert_contact(st, item) ==
  LET item_info_hash == item.expiration.info_hash
      already_in_list ==
        /\ item_info_hash \in DOMAIN st.storage
        /\ \E i \in 1 .. Len(st.storage[item_info_hash]) :
             ItemExpiration_eq(st.storage[item_info_hash][i].expiration, item.expiration)
  IN  IF already_in_list THEN [res |-> "SomeTrue", st |-> st]
      ELSE IF Len(st.expires) < MAX_ITEMS_STORED
        THEN [res |-> "SomeFalse",
              st |-> [st EXCEPT !.storage =
                        IF item_info_hash \in DOMAIN st.storage
                          THEN MapPut(st.storage, item_info_hash,
                                      Append(st.storage[item_info_hash], item))
                          ELSE MapPut(st.storage, item_info_hash, <<item>>)]]
      ELSE [res |-> "None", st |-> st]

\* an add that leaves the expiration of an existing item where it is
add_without_renewal(st0, info_hash, address) ==
  LET st == remove_expired_items(st0)
      item == AnnounceItem_new(info_hash, address)
      item_expiration == item.expiration
      r == insert_contact(st, item)
  IN  IF r.res = "SomeTrue" THEN [ok |-> TRUE, st |-> r.st]
      ELSE IF r.res = "SomeFalse"
        THEN [ok |-> TRUE,
              st |-> [r.st EXCEPT !.expires = Append(r.st.expires, item_expiration)]]
      ELSE [ok |-> FALSE, st |-> r.st]

\* AnnounceStorage::add (add_item: current_time = Instant::now())
add(st0, info_hash, address) ==
  LET st == remove_expired_items(st0)
      item == AnnounceItem_new(info_hash, address)
      item_expiration == item.expiration
      r == insert_contact(st, item)
      Other(i) == ~ItemExpiration_eq(i, item_expiration)
  IN  IF r.res = "SomeTrue"
        THEN [ok |-> TRUE,
              st |-> [r.st EXCEPT !.expires =
                        Append(Retain(r.st.expires, Other), item_expiration)]]
      ELSE IF r.res = "SomeFalse"
        THEN [ok |-> TRUE,
              st |-> [r.st EXCEPT !.expires = Append(r.st.expires, item_expiration)]]
      ELSE [ok |-> FALSE, st |-> r.st]

\* AnnounceStorage::find (find_items: current_time = Instant::now()): the
\* addresses yielded and the storage afterwards
find(st0, info_hash) ==
  LET st == remove_expired_items(st0)
  IN  [items |-> IF info_hash \in DOMAIN st.storage
                   THEN [i \in 1 .. Len(st.storage[info_hash]) |->
                           st.storage[info_hash][i].expiration.address]
                   ELSE <<>>,
       st |-> st]

\* the clock advancing by d, seen from the storage
StorageAgeBy(t, d) == IF t + d > StorageAgeCap THEN StorageAgeCap ELSE t + d

StorageElapse(st, d) ==
  [storage |-> [k \in DOMAIN st.storage |->
                  [i \in 1 .. Len(st.storage[k]) |->
                     [st.storage[k][i] EXCEPT !.expiration.inserted =
                        StorageAgeBy(st.storage[k][i].expiration.inserted, d)]]],
   expires |-> [i \in 1 .. Len(st.expires) |->
                  [st.expires[i] EXCEPT !.inserted =
                     StorageAgeBy(st.expires[i].inserted, d)]]]

(***************************************************************************)
(* transaction.rs                                                          *)
(***************************************************************************)
ACTION_ID_SHIFT == ActionIdBits
MAX_ACTION_ID == Pow2(ACTION_ID_SHIFT)

MESSAGE_ID_SHIFT == MessageIdBits
MAX_MESSAGE_ID == Pow2(MESSAGE_ID_SHIFT)

\* the preallocation lengths (2048, and 16 under cfg(test)), scaled with the
\* id widths; a power of two, so that the blocks end exactly at the maximum
ACTION_ID_PRE_ALLOC_LEN == 2
MESSAGE_ID_PRE_ALLOC_LEN == 2

\* the width of a transaction id (TRANSACTION_ID_BYTES * 8, the u64)
TRANSACTION_ID_BITS == ActionIdBits + MessageIdBits

\* u64 operators, at the width of a transaction id
RECURSIVE BitOrW(_, _, _)
BitOrW(a, b, w) ==
  IF w = 0 THEN 0
  ELSE (IF (a % 2) + (b % 2) > 0 THEN 1 ELSE 0) + (2 * BitOrW(a \div 2, b \div 2, w - 1))

RECURSIVE BitAndW(_, _, _)
BitAndW(a, b, w) ==
  IF w = 0 THEN 0
  ELSE ((a % 2) * (b % 2)) + (2 * BitAndW(a \div 2, b \div 2, w - 1))

BitOr(a, b) == BitOrW(a, b, TRANSACTION_ID_BITS)
BitAnd(a, b) == BitAndW(a, b, TRANSACTION_ID_BITS)
ShiftLeft(a, n) == (a * Pow2(n)) % Pow2(TRANSACTION_ID_BITS)
ShiftRight(a, n) == a \div Pow2(n)

\* slice::shuffle: any order of the same ids
Shuffles(ids) ==
  {p \in [1 .. Len(ids) -> {ids[i] : i \in 1 .. Len(ids)}] :
     \A i, j \in 1 .. Len(ids) : p[i] = p[j] => i = j}

\* a generate_aids whose next block starts at the last id of this one
generate_aids_overlapping(next_alloc) ==
  LET next_alloc_start == IF next_alloc = MAX_ACTION_ID THEN 0 ELSE next_alloc
  IN  [next_alloc |-> next_alloc_start + ACTION_ID_PRE_ALLOC_LEN - 1,
       ids |-> [index \in 1 .. ACTION_ID_PRE_ALLOC_LEN |-> next_alloc_start + (index - 1)]]

\* generate_aids: (next_alloc, ids array)
generate_aids(next_alloc) ==
  LET next_alloc_start == IF next_alloc = MAX_ACTION_ID THEN 0 ELSE next_alloc
      next_alloc_end == IF next_alloc = MAX_ACTION_ID
                          THEN ACTION_ID_PRE_ALLOC_LEN
                          ELSE next_alloc + ACTION_ID_PRE_ALLOC_LEN
  IN  [next_alloc |-> next_alloc_end,
       ids |-> [index \in 1 .. ACTION_ID_PRE_ALLOC_LEN |-> next_alloc_start + (index - 1)]]

\* generate_mids: (next_alloc, ids array)
generate_mids(next_alloc) ==
  LET next_alloc_start == IF next_alloc = MAX_MESSAGE_ID THEN 0 ELSE next_alloc
      next_alloc_end == IF next_alloc = MAX_MESSAGE_ID
                          THEN MESSAGE_ID_PRE_ALLOC_LEN
                          ELSE next_alloc + MESSAGE_ID_PRE_ALLOC_LEN
  IN  [next_alloc |-> next_alloc_end,
       ids |-> [index \in 1 .. MESSAGE_ID_PRE_ALLOC_LEN |-> next_alloc_start + (index - 1)]]

\* AIDGenerator::default, the shuffle having produced action_ids
AIDGenerator_default(action_ids) ==
  [next_alloc |-> generate_aids(0).next_alloc, current_index |-> 0,
   action_ids |-> action_ids]

\* MIDGenerator::new
MIDGenerator_new(action_id) ==
  [action_id |-> action_id, next_alloc |-> 0,
   current_index |-> MESSAGE_ID_PRE_ALLOC_LEN,
   message_ids |-> [index \in 1 .. MESSAGE_ID_PRE_ALLOC_LEN |-> 0]]

\* AIDGenerator::generate: the generator afterwards and the MIDGenerator
\* returned; shuffled is what the shuffle of a new block produces
RECURSIVE AIDGenerator_generate(_, _)
AIDGenerator_generate(g, shuffled) ==
  IF g.current_index < ACTION_ID_PRE_ALLOC_LEN
    THEN [gen |-> [g EXCEPT !.current_index = g.current_index + 1],
          mid |-> MIDGenerator_new(
                    ShiftLeft(g.action_ids[g.current_index + 1], MESSAGE_ID_SHIFT))]
    ELSE AIDGenerator_generate(
           [next_alloc |-> generate_aids(g.next_alloc).next_alloc,
            current_index |-> 0,
            action_ids |-> shuffled],
           shuffled)

\* TransactionID::new: u64::to_be_bytes, one bit per entry, most significant first
TransactionID_new(trans_id) ==
  [bytes |-> [i \in 1 .. TRANSACTION_ID_BITS |->
                (trans_id \div Pow2(TRANSACTION_ID_BITS - i)) % 2]]

\* u64::from_be_bytes
RECURSIVE from_be_bytes(_)
from_be_bytes(bytes) ==
  IF bytes = <<>> THEN 0
  ELSE (2 * from_be_bytes(SubSeq(bytes, 1, Len(bytes) - 1))) + bytes[Len(bytes)]

\* MIDGenerator::generate: the generator afterwards, the TransactionID and the
\* message id it was built of
RECURSIVE MIDGenerator_generate(_, _)
MIDGenerator_generate(g, shuffled) ==
  IF g.current_index < MESSAGE_ID_PRE_ALLOC_LEN
    THEN [gen |-> [g EXCEPT !.current_index = g.current_index + 1],
          tid |-> TransactionID_new(
                    BitOr(g.action_id, g.message_ids[g.current_index + 1])),
          message_id |-> g.message_ids[g.current_index + 1]]
    ELSE MIDGenerator_generate(
           [g EXCEPT !.next_alloc = generate_mids(g.next_alloc).next_alloc,
                     !.message_ids = shuffled,
                     !.current_index = 0],
           shuffled)

\* ActionID::from_transaction_id
ActionID_from_transaction_id(trans_id) == ShiftRight(trans_id, MESSAGE_ID_SHIFT)

\* MessageID::from_transaction_id
MessageID_from_transaction_id(trans_id) ==
  LET clear_action_id == MAX_ACTION_ID - 1
  IN  BitAnd(trans_id, clear_action_id)

\* MIDGenerator::action_id
MIDGenerator_action_id(g) == ActionID_from_transaction_id(g.action_id)

\* TransactionID::action_id
TransactionID_action_id(tid) == ActionID_from_transaction_id(from_be_bytes(tid.bytes))

\* TransactionID::message_id
TransactionID_message_id(tid) == MessageID_from_transaction_id(from_be_bytes(tid.bytes))

(***************************************************************************)
(* The routing table under add_node calls and the passing of time.         *)
(***************************************************************************)
\* the id of the local node
SelfId == 0

\* addresses of remote nodes
Addrs == 1 .. 2

\* ids of remote nodes: one per ideal bucket index, and the local id itself
RemoteIds == {flip_bit(SelfId, k) : k \in 0 .. (IdBits - 1)} \cup {SelfId}

\* the nodes handed to add_node: Node::as_good and Node::as_questionable
Candidates ==
  {as_good(i, a) : i \in RemoteIds, a \in Addrs}
    \cup {as_questionable(i, a) : i \in RemoteIds, a \in Addrs}

\* what table_last holds after a call
TableCall(op, node) == [op |-> op, node |-> node, before |-> table]

TableInit ==
  /\ table = RoutingTable_new(SelfId)
  /\ adds = 0
  /\ table_last = [op |-> "new", node |-> as_bad(0, PlaceholderAddr),
                   before |-> RoutingTable_new(SelfId)]

\* RoutingTable::add_node
AddNode(node) ==
  /\ adds < MaxAdds
  /\ table' = add_node(table, node)
  /\ adds' = adds + 1
  /\ table_last' = TableCall("add_node", node)
  /\ UNCHANGED exceptRouting

\* MAX_LAST_SEEN_MINS pass without any message
TableTick ==
  /\ table' = TableElapse(table, LastSeen)
  /\ table' # table
  /\ table_last' = TableCall("tick", as_bad(0, PlaceholderAddr))
  /\ UNCHANGED adds
  /\ UNCHANGED exceptRouting

\* all the nodes of the table, bucket by bucket
RECURSIVE Flatten(_)
Flatten(buckets) ==
  IF buckets = <<>> THEN <<>> ELSE Head(buckets) \o Flatten(Tail(buckets))

\* the number of entries of a sequence whose handle is h
Count(seq, h) == Cardinality({i \in 1 .. Len(seq) : handle(seq[i]) = h})

(***************************************************************************)
(* A stand-alone bucket under add_node calls and the passing of time.       *)
(***************************************************************************)
BucketIds == 1 .. (MAX_BUCKET_SIZE + 1)

BucketCandidates ==
  {as_good(i, 1) : i \in BucketIds}
    \cup {as_questionable(i, 1) : i \in BucketIds}
    \cup {as_bad(i, 1) : i \in BucketIds}

BucketInit ==
  /\ bucket = Bucket_new
  /\ bucket_adds = 0
  /\ bucket_last = [node |-> as_bad(0, PlaceholderAddr), before |-> Bucket_new,
                    after |-> Bucket_new, ret |-> TRUE]

\* Bucket::add_node
BucketAdd(node) ==
  /\ bucket_adds < MaxBucketAdds
  /\ LET r == Bucket_add_node(bucket, node)
     IN  /\ bucket' = r.nodes
         /\ bucket_last' = [node |-> node, before |-> bucket,
                            after |-> r.nodes, ret |-> r.ok]
  /\ bucket_adds' = bucket_adds + 1
  /\ UNCHANGED exceptBucket

\* Node::local_request on a node of the bucket (through find_node_mut)
BucketLocalRequest(i) ==
  /\ bucket_adds < MaxBucketAdds
  /\ bucket[i].addr # PlaceholderAddr
  /\ bucket' = [bucket EXCEPT ![i] = local_request(@)]
  /\ bucket_adds' = bucket_adds + 1
  /\ UNCHANGED bucket_last
  /\ UNCHANGED exceptBucket

\* Node::remote_request on a node of the bucket
BucketRemoteRequest(i) ==
  /\ bucket_adds < MaxBucketAdds
  /\ bucket[i].addr # PlaceholderAddr
  /\ bucket' = [bucket EXCEPT ![i] = remote_request(@)]
  /\ bucket_adds' = bucket_adds + 1
  /\ UNCHANGED bucket_last
  /\ UNCHANGED exceptBucket

\* half of MAX_LAST_SEEN_MINS passes without any message
BucketWait ==
  /\ bucket' = BucketElapse(bucket, LastSeen \div 2)
  /\ bucket' # bucket
  /\ UNCHANGED <<bucket_adds, bucket_last>>
  /\ UNCHANGED exceptBucket

\* MAX_LAST_SEEN_MINS pass without any message
BucketTick ==
  /\ bucket' = BucketElapse(bucket, LastSeen)
  /\ bucket' # bucket
  /\ UNCHANGED <<bucket_adds, bucket_last>>
  /\ UNCHANGED exceptBucket

(***************************************************************************)
(* The announce storage under add_item, find_items and the passing of time. *)
(***************************************************************************)
InfoHashes == 1 .. 2
StorageAddrs == 1 .. 2
Pairs == InfoHashes \X StorageAddrs

\* the clock steps explored: one instant, and one instant short of 25 hours
StorageSteps == {1, EXPIRATION_TIME - 1}

\* the (info hash, address) pairs accepted less than 25 hours ago
Live(added) == {p \in Pairs : added[p] # NONE /\ added[p] < EXPIRATION_TIME}

\* no call recorded
NoCall ==
  [op |-> "none", info_hash |-> 0, address |-> 0, ret |-> TRUE, items |-> <<>>,
   before |-> AnnounceStorage_new, after |-> AnnounceStorage_new, live |-> {}]

StorageInit ==
  /\ storage = AnnounceStorage_new.storage
  /\ expires = AnnounceStorage_new.expires
  /\ storage_ticks = 0
  /\ storage_last = NoCall
  /\ last_added = [p \in Pairs |-> NONE]

\* AnnounceStorage::add_item
StorageAdd(info_hash, address) ==
  LET before == [storage |-> storage, expires |-> expires]
      r == add(before, info_hash, address)
  IN  /\ storage' = r.st.storage
      /\ expires' = r.st.expires
      /\ storage_last' = [op |-> "add", info_hash |-> info_hash, address |-> address,
                          ret |-> r.ok, items |-> <<>>, before |-> before,
                          after |-> r.st, live |-> Live(last_added)]
      /\ last_added' = IF r.ok
                         THEN [last_added EXCEPT ![<<info_hash, address>>] = 0]
                         ELSE last_added
      /\ UNCHANGED storage_ticks
      /\ UNCHANGED exceptStorage

\* AnnounceStorage::find_items
StorageFind(info_hash) ==
  LET before == [storage |-> storage, expires |-> expires]
      r == find(before, info_hash)
  IN  /\ storage' = r.st.storage
      /\ expires' = r.st.expires
      /\ storage_last' = [op |-> "find", info_hash |-> info_hash, address |-> 0,
                          ret |-> TRUE, items |-> r.items, before |-> before,
                          after |-> r.st, live |-> Live(last_added)]
      /\ UNCHANGED <<storage_ticks, last_added>>
      /\ UNCHANGED exceptStorage

\* d milliseconds pass
StorageTick(d) ==
  /\ storage_ticks < MaxStorageTicks
  /\ LET st == StorageElapse([storage |-> storage, expires |-> expires], d)
     IN  /\ storage' = st.storage
         /\ expires' = st.expires
  /\ last_added' = [p \in Pairs |->
                      IF last_added[p] = NONE THEN NONE
                      ELSE StorageAgeBy(last_added[p], d)]
  /\ storage_ticks' = storage_ticks + 1
  /\ storage_last' = NoCall
  /\ UNCHANGED exceptStorage

(***************************************************************************)
(* An AIDGenerator and the MIDGenerator it returned last.                  *)
(***************************************************************************)
TidInit ==
  /\ \E shuffled \in Shuffles(generate_aids(0).ids) :
       aid_gen = AIDGenerator_default(shuffled)
  /\ mid_gen = <<>>
  /\ aid_seen = {}
  /\ aid_count = 0
  /\ aid_wrapped = FALSE
  /\ mid_seen = {}
  /\ mid_count = 0
  /\ mid_wrapped = FALSE
  /\ tid_seen = {}
  /\ tid_last = <<>>

\* what the shuffle in generate can produce: an order of the next block when
\* the current one is used up (no shuffle happens otherwise)
AidShuffles ==
  IF aid_gen.current_index < ACTION_ID_PRE_ALLOC_LEN
    THEN {aid_gen.action_ids}
    ELSE Shuffles(generate_aids(aid_gen.next_alloc).ids)

MidShuffles ==
  IF mid_gen[1].current_index < MESSAGE_ID_PRE_ALLOC_LEN
    THEN {mid_gen[1].message_ids}
    ELSE Shuffles(generate_mids(mid_gen[1].next_alloc).ids)

\* AIDGenerator::generate; the record of ids starts anew once MAX_ACTION_ID
\* ids have been handed out
AidGenerate ==
  \E shuffled \in AidShuffles :
  LET r == AIDGenerator_generate(aid_gen, shuffled)
      id == MIDGenerator_action_id(r.mid)
      full == aid_count = MAX_ACTION_ID
  IN  /\ aid_gen' = r.gen
      /\ mid_gen' = <<r.mid>>
      /\ aid_seen' = IF full THEN {id} ELSE aid_seen \cup {id}
      /\ aid_count' = IF full THEN 1 ELSE aid_count + 1
      /\ aid_wrapped' = (aid_wrapped \/ full)
      /\ mid_seen' = {}
      /\ mid_count' = 0
      /\ mid_wrapped' = FALSE
      /\ tid_seen' = {}
      /\ tid_last' = <<>>
      /\ UNCHANGED exceptTid

\* MIDGenerator::generate; the record of ids starts anew once MAX_MESSAGE_ID
\* ids have been handed out
MidGenerate ==
  /\ mid_gen # <<>>
  /\ \E shuffled \in Shuffles(generate_mids(mid_gen[1].next_alloc).ids) :
     LET r == MIDGenerator_generate(mid_gen[1], shuffled)
         full == mid_count = MAX_MESSAGE_ID
     IN  /\ mid_gen' = <<r.gen>>
         /\ mid_seen' = IF full THEN {r.message_id} ELSE mid_seen \cup {r.message_id}
         /\ tid_seen' = IF full THEN {from_be_bytes(r.tid.bytes)}
                        ELSE tid_seen \cup {from_be_bytes(r.tid.bytes)}
         /\ mid_count' = IF full THEN 1 ELSE mid_count + 1
         /\ mid_wrapped' = (mid_wrapped \/ full)
         /\ tid_last' = <<[tid |-> r.tid, message_id |-> r.message_id]>>
  /\ UNCHANGED <<aid_gen, aid_seen, aid_count, aid_wrapped>>
  /\ UNCHANGED exceptTid

(***************************************************************************)
(* worker/timer.rs: Timer<T>.  An Instant is the time left until it, in    *)
(* milliseconds; Instant::now() is 0.                                      *)
(***************************************************************************)
\* struct Timeout, the key of an entry
Timeout(deadline, id) == [deadline |-> deadline, id |-> id]

\* the order derived for Timeout: by deadline, then by id
TimeoutLess(a, b) ==
  a.deadline < b.deadline \/ (a.deadline = b.deadline /\ a.id < b.id)

\* Timer::new
Timer_new == [next_id |-> 0, current |-> <<>>, queue |-> {}]

\* Timer::is_empty
Timer_is_empty(t) == t.current = <<>> /\ t.queue = {}

\* BTreeMap::insert on the queue
QueueInsert(queue, key, value) ==
  {e \in queue : e.key # key} \cup {[key |-> key, value |-> value]}

\* Timer::next_id (u64::wrapping_add at the width of the model)
Timer_next_id(t) == (t.next_id + 1) % Pow2(TimerIdBits)

\* a schedule_at that leaves the current entry armed
schedule_at_keeping_current(t, deadline, value) ==
  LET key == Timeout(deadline, t.next_id)
  IN  [timer |-> [t EXCEPT !.next_id = Timer_next_id(t),
                           !.queue = QueueInsert(t.queue, key, value)],
       key |-> key]

\* a cancel that looks in the queue only
cancel_queued_only(t, timeout) ==
  [timer |-> [t EXCEPT !.queue = {e \in t.queue : e.key # timeout}],
   ret |-> \E e \in t.queue : e.key = timeout]

\* Timer::schedule_at: the timer afterwards and the Timeout returned
schedule_at(t, deadline, value) ==
  LET pushed == IF t.current # <<>> /\ deadline < t.current[1].key.deadline
                  THEN [t EXCEPT !.current = <<>>,
                                 !.queue = QueueInsert(t.queue, t.current[1].key,
                                                       t.current[1].value)]
                  ELSE t
      key == Timeout(deadline, pushed.next_id)
  IN  [timer |-> [pushed EXCEPT !.next_id = Timer_next_id(pushed),
                                !.queue = QueueInsert(pushed.queue, key, value)],
       key |-> key]

\* Timer::schedule_in
schedule_in(t, duration, value) == schedule_at(t, 0 + duration, value)

\* a cancel that leaves the entry where it is
cancel_kept(t, timeout) == [timer |-> t, ret |-> FALSE]

\* Timer::cancel: the timer afterwards and the flag returned
cancel(t, timeout) ==
  IF t.current # <<>> /\ t.current[1].key = timeout
    THEN [timer |-> [t EXCEPT !.current = <<>>], ret |-> TRUE]
    ELSE [timer |-> [t EXCEPT !.queue = {e \in t.queue : e.key # timeout}],
          ret |-> \E e \in t.queue : e.key = timeout]

\* the first entry of the queue (BTreeMap::keys().next())
FirstEntry(queue) ==
  CHOOSE e \in queue : \A o \in queue : o = e \/ TimeoutLess(e.key, o.key)

\* Timer::poll_next while no sleep is ready: the first entry of the queue
\* becomes the current one
poll_next_pending(t) ==
  IF t.current = <<>> /\ t.queue # {}
    THEN [t EXCEPT !.current = <<FirstEntry(t.queue)>>,
                   !.queue = t.queue \ {FirstEntry(t.queue)}]
    ELSE t

\* Timer::poll_next when the sleep of the current entry is ready
poll_next_ready(t) == [timer |-> [t EXCEPT !.current = <<>>], value |-> t.current[1].value]

\* Stream::poll_next: the timer afterwards, the item yielded (<<value>>, or
\* <<>> for Poll::Pending and for Poll::Ready(None)) and the key of that item
poll_next(t) ==
  LET armed == poll_next_pending(t)
  IN  IF armed.current # <<>> /\ armed.current[1].key.deadline <= 0
        THEN [timer |-> poll_next_ready(armed).timer,
              item |-> <<poll_next_ready(armed).value>>,
              key |-> armed.current[1].key]
        ELSE [timer |-> armed, item |-> <<>>, key |-> Timeout(0, 0)]

\* d milliseconds pass
KeyElapse(key, d) == [key EXCEPT !.deadline = key.deadline - d]

TimerElapse(t, d) ==
  [t EXCEPT !.current = IF t.current = <<>> THEN <<>>
                        ELSE <<[t.current[1] EXCEPT !.key = KeyElapse(t.current[1].key, d)]>>,
            !.queue = {[e EXCEPT !.key = KeyElapse(e.key, d)] : e \in t.queue}]

(***************************************************************************)
(* worker/bootstrap.rs: TableBootstrap.  The operators work on the state   *)
(* the handler lends to it: w = [bootstrap, routing_table, timer, socket], *)
(* socket being the find_node requests sent and not answered yet.          *)
(***************************************************************************)
INITIAL_TIMEOUT == 2500
NODE_TIMEOUT == 500
NO_NETWORK_TIMEOUT == 5 * 1000
PERIODIC_CHECK_TIMEOUT == 5 * 1000
GOOD_NODE_THRESHOLD == 10
PINGS_PER_BUCKET == 8

\* enum State
Bootstrapping == "Bootstrapping"
Bootstrapped == "Bootstrapped"
IdleBeforeReBootstrap == "IdleBeforeReBootstrap"

\* enum BootstrapTimeout inside ScheduledTaskCheck::BootstrapTimeout
Transaction(trans_id) == [kind |-> "Transaction", trans_id |-> <<trans_id>>]
IdleWakeUp == [kind |-> "IdleWakeUp", trans_id |-> <<>>]

\* a Min that is its first argument
Min_first(a, b) == a

Min(a, b) == IF a < b THEN a ELSE b
Max(a, b) == IF a > b THEN a ELSE b

\* Iterator::take
Take(seq, n) == SubSeq(seq, 1, Min(n, Len(seq)))

\* slice::shuffle, the random order being perm
Shuffled(ids, perm) == [i \in 1 .. Len(ids) |-> ids[perm[i]]]

\* the orders a shuffle of a block of message ids can take
Perms == Shuffles([i \in 1 .. MESSAGE_ID_PRE_ALLOC_LEN |-> i])

\* a generate that hands out the first id of the generator every time
generate_repeating(g, perm) ==
  [MIDGenerator_generate(g, Shuffled(generate_mids(g.next_alloc).ids, perm))
     EXCEPT !.tid = TransactionID_new(g.action_id)]

\* id_generator.generate(), perm being the order of a newly allocated block
generate(g, perm) ==
  MIDGenerator_generate(g, Shuffled(generate_mids(g.next_alloc).ids, perm))

\* a find_node request on the wire
Datagram(addr, trans_id) == [addr |-> addr, trans_id |-> trans_id]

\* TableBootstrap::new
TableBootstrap_new(id_generator, routers, nodes) ==
  [routers |-> routers, router_addresses |-> {}, id_generator |-> id_generator,
   starting_nodes |-> nodes, active_message |-> <<>>,
   current_bootstrap_bucket |-> 0, initial_responses |-> {},
   initial_responses_expected |-> 8, state |-> IdleBeforeReBootstrap,
   bootstrap_attempt |-> 0, last_send_error |-> FALSE]

\* TableBootstrap::is_bootstrapped
is_bootstrapped(b) == b.state = Bootstrapped

\* a set_state that never reports a change
set_state_silent(b, new_state) ==
  [bootstrap |-> [b EXCEPT !.state = new_state], ret |-> FALSE]

\* TableBootstrap::set_state
set_state(b, new_state) ==
  [bootstrap |-> [b EXCEPT !.state = new_state],
   ret |-> ((b.state = Bootstrapped) # (new_state = Bootstrapped))]

\* a transaction_timeout_in that schedules nothing
transaction_timeout_in_dropped(t, duration, trans_id) ==
  [timer |-> [t EXCEPT !.next_id = Timer_next_id(t)], key |-> Timeout(duration, t.next_id)]

transaction_timeout_in(t, duration, trans_id) ==
  schedule_in(t, duration, Transaction(trans_id))

\* an idle_timeout_in that schedules nothing
idle_timeout_in_dropped(t, duration) ==
  [timer |-> [t EXCEPT !.next_id = Timer_next_id(t)], key |-> Timeout(duration, t.next_id)]

idle_timeout_in(t, duration) == schedule_in(t, duration, IdleWakeUp)

\* worker::resolve: dns gives the addresses each router name resolves to
resolve(routers, dns) == UNION {dns[r] : r \in routers}

\* TableBootstrap::calculate_retry_duration, in milliseconds
calculate_retry_duration(b) ==
  LET n == Max(b.bootstrap_attempt, 1)
  IN  Pow2(Min(n, 9)) * 1000

\* TableBootstrap::start; dns is what the resolver answers, sent the addresses
\* socket.send succeeds for.  bootstrap_attempt is a u64 in the code: it is
\* kept at MaxAttempts here, calculate_retry_duration telling no value above
\* 9 apart
start(w, dns, sent, perm) ==
  LET b0 == [w.bootstrap EXCEPT !.bootstrap_attempt = Min(@ + 1, MaxAttempts)]
  IN  IF b0.routers = {} /\ b0.starting_nodes = {}
        THEN LET s == set_state([b0 EXCEPT !.bootstrap_attempt = 0], Bootstrapped)
             IN  [w |-> [w EXCEPT !.bootstrap = s.bootstrap], ret |-> s.ret]
        ELSE
          LET router_addresses == resolve(b0.routers, dns)
              unresolved == b0.routers # {} /\ router_addresses = {}
              t1 == IF unresolved
                      THEN idle_timeout_in(w.timer, NO_NETWORK_TIMEOUT).timer
                      ELSE w.timer
              b1 == IF unresolved
                      THEN set_state([b0 EXCEPT !.router_addresses = router_addresses,
                                                !.bootstrap_attempt = 0],
                                     IdleBeforeReBootstrap).bootstrap
                      ELSE [b0 EXCEPT !.router_addresses = router_addresses]
              g == generate(b1.id_generator, perm)
              trans_id == g.tid
              timeout == transaction_timeout_in(t1, INITIAL_TIMEOUT, trans_id)
              routers_ok == router_addresses \cap sent
              nodes_ok == b1.starting_nodes \cap sent
              failed == (router_addresses \cup b1.starting_nodes) \ sent # {}
              expected == Min(Cardinality(routers_ok) + Cardinality(nodes_ok),
                              PINGS_PER_BUCKET)
              b2 == [b1 EXCEPT !.active_message = MapPut(<<>>, trans_id, timeout.key),
                               !.current_bootstrap_bucket = 0,
                               !.id_generator = g.gen,
                               !.initial_responses_expected = expected,
                               !.initial_responses = {},
                               !.last_send_error =
                                  IF expected > 0 THEN FALSE ELSE (failed \/ @)]
              socket == w.socket \cup
                          {Datagram(addr, trans_id) : addr \in routers_ok \cup nodes_ok}
          IN  IF expected > 0
                THEN LET s == set_state(b2, Bootstrapping)
                     IN  [w |-> [w EXCEPT !.bootstrap = s.bootstrap,
                                          !.timer = timeout.timer,
                                          !.socket = socket],
                          ret |-> s.ret]
                ELSE LET s == set_state([b2 EXCEPT !.bootstrap_attempt = 0],
                                        IdleBeforeReBootstrap)
                     IN  [w |-> [w EXCEPT !.bootstrap = s.bootstrap,
                                          !.timer = idle_timeout_in(timeout.timer,
                                                      NO_NETWORK_TIMEOUT).timer,
                                          !.socket = socket],
                          ret |-> s.ret]

\* RoutingTable::find_node_mut: <<bucket index, slot>> of the node, <<>> for None
find_node_mut(t, node) ==
  LET bucket_index == bucket_index_for_node(t, node[1])
      Found(n) == is_ping_able(n) /\ handle(n) = node
      slot == IF bucket_index < Len(t.buckets)
                THEN Position(t.buckets[bucket_index + 1], Found)
                ELSE 0
  IN  IF slot = 0 THEN <<>> ELSE <<bucket_index, slot>>

\* the loop of send_bootstrap_requests from the i-th node on: the state
\* afterwards and messages_sent
RECURSIVE send_bootstrap_requests_from(_, _, _, _, _, _)
send_bootstrap_requests_from(w, nodes, i, messages_sent, sent, perm) ==
  IF i > Len(nodes) THEN [w |-> w, messages_sent |-> messages_sent]
  ELSE
    LET node == nodes[i]
        g == generate(w.bootstrap.id_generator, perm)
        trans_id == g.tid
        timeout == transaction_timeout_in(w.timer, NODE_TIMEOUT, trans_id)
        w1 == [w EXCEPT !.bootstrap.id_generator = g.gen, !.timer = timeout.timer]
        found == find_node_mut(w1.routing_table, node)
        requested == IF found = <<>> THEN w1.routing_table
                 ELSE [w1.routing_table EXCEPT
                         !.buckets[found[1] + 1][found[2]] = local_request(@)]
        w2 == [w1 EXCEPT !.socket = @ \cup {Datagram(node[2], trans_id)},
                         !.routing_table = requested,
                         !.bootstrap.active_message = MapPut(@, trans_id, timeout.key)]
    IN  IF node[2] \notin sent
          THEN send_bootstrap_requests_from(w1, nodes, i + 1, messages_sent, sent, perm)
          ELSE send_bootstrap_requests_from(w2, nodes, i + 1, messages_sent + 1,
                                            sent, perm)

\* TableBootstrap::send_bootstrap_requests
send_bootstrap_requests(w, nodes, target_id, sent, perm) ==
  LET r == send_bootstrap_requests_from(w, nodes, 1, 0, sent, perm)
  IN  [w |-> r.w, ret |-> r.messages_sent > 0]

\* the bucket the k-th next() of table.buckets().skip(..) gives, Bucket::new()
\* (dummy_bucket) when the iterator is exhausted
BucketOrDummy(buckets, k) == IF k < Len(buckets) THEN buckets[k + 1] ELSE Bucket_new

\* the nodes bootstrap_next_bucket selects for current_bootstrap_bucket
NodesToPing(t, current_bootstrap_bucket, target_id) ==
  LET IsQuestionable(n) == status(n) = Questionable
      found == IF current_bootstrap_bucket = 0 \/ current_bootstrap_bucket = 1
                 THEN closest_nodes(t, target_id)
                 ELSE BucketOrDummy(t.buckets, current_bootstrap_bucket - 2)
                        \o BucketOrDummy(t.buckets, current_bootstrap_bucket - 1)
                        \o BucketOrDummy(t.buckets, current_bootstrap_bucket)
      taken == Take(SelectSeq(found, IsQuestionable), PINGS_PER_BUCKET)
  IN  [i \in 1 .. Len(taken) |-> handle(taken[i])]

\* TableBootstrap::bootstrap_next_bucket
RECURSIVE bootstrap_next_bucket(_, _, _)
bootstrap_next_bucket(w, sent, perm) ==
  LET b == w.bootstrap
  IN  IF b.current_bootstrap_bucket >= MAX_BUCKETS
        THEN IF num_good_nodes(w.routing_table) >= GOOD_NODE_THRESHOLD
               THEN LET s == set_state([b EXCEPT !.bootstrap_attempt = 0], Bootstrapped)
                    IN  [w |-> [w EXCEPT !.bootstrap = s.bootstrap,
                                         !.timer = idle_timeout_in(w.timer,
                                                     PERIODIC_CHECK_TIMEOUT).timer],
                         ret |-> s.ret]
               ELSE LET time == calculate_retry_duration(b)
                        s == set_state(b, IdleBeforeReBootstrap)
                    IN  [w |-> [w EXCEPT !.bootstrap = s.bootstrap,
                                         !.timer = idle_timeout_in(w.timer, time).timer],
                         ret |-> s.ret]
        ELSE LET target_id == flip_bit(w.routing_table.node_id,
                                       b.current_bootstrap_bucket)
                 nodes == NodesToPing(w.routing_table, b.current_bootstrap_bucket,
                                      target_id)
                 w1 == [w EXCEPT !.bootstrap.current_bootstrap_bucket = @ + 1]
                 r == send_bootstrap_requests(w1, nodes, target_id, sent, perm)
             IN  IF r.ret
                   THEN LET s == set_state(r.w.bootstrap, Bootstrapping)
                        IN  [w |-> [r.w EXCEPT !.bootstrap = s.bootstrap], ret |-> s.ret]
                   ELSE bootstrap_next_bucket(r.w, sent, perm)

\* a recv_response that clears the transaction id on the first response
recv_response_first(w, addr, trans_id, sent, perm) ==
  LET b == w.bootstrap
  IN  IF trans_id \notin DOMAIN b.active_message THEN [w |-> w, ret |-> FALSE]
      ELSE
        LET w1 == [w EXCEPT !.bootstrap.active_message = MapRemove(@, trans_id),
                            !.timer = cancel(w.timer, b.active_message[trans_id]).timer]
        IN  IF DOMAIN w1.bootstrap.active_message = {}
              THEN bootstrap_next_bucket(w1, sent, perm)
              ELSE [w |-> w1, ret |-> FALSE]

\* TableBootstrap::recv_response
recv_response(w, addr, trans_id, sent, perm) ==
  LET b == w.bootstrap
  IN  IF trans_id \notin DOMAIN b.active_message THEN [w |-> w, ret |-> FALSE]
      ELSE
        LET timeout == b.active_message[trans_id]
            b1 == IF b.current_bootstrap_bucket = 0
                    THEN [b EXCEPT !.initial_responses = @ \cup {addr}]
                    ELSE b
            clear == \/ b.current_bootstrap_bucket # 0
                     \/ Cardinality(b1.initial_responses) >= b1.initial_responses_expected
            w1 == IF clear
                    THEN [w EXCEPT !.bootstrap =
                                      [b1 EXCEPT !.active_message = MapRemove(@, trans_id)],
                                   !.timer = cancel(w.timer, timeout).timer]
                    ELSE [w EXCEPT !.bootstrap = b1]
        IN  IF DOMAIN w1.bootstrap.active_message = {}
              THEN bootstrap_next_bucket(w1, sent, perm)
              ELSE [w |-> w1, ret |-> FALSE]

\* TableBootstrap::handle_transaction_timeout
handle_transaction_timeout(w, trans_id, sent, perm) ==
  IF trans_id \notin DOMAIN w.bootstrap.active_message THEN [w |-> w, ret |-> FALSE]
  ELSE LET w1 == [w EXCEPT !.bootstrap.active_message = MapRemove(@, trans_id)]
       IN  IF w1.bootstrap.state = Bootstrapping
                /\ DOMAIN w1.bootstrap.active_message = {}
             THEN bootstrap_next_bucket(w1, sent, perm)
             ELSE [w |-> w1, ret |-> FALSE]

\* a handle_wake_up_timeout that starts an attempt whatever the state
handle_wake_up_timeout_starting(w, dns, sent, perm) == start(w, dns, sent, perm)

\* a handle_wake_up_timeout whose periodic check is not scheduled again
handle_wake_up_timeout_once(w, dns, sent, perm) ==
  IF w.bootstrap.state = Bootstrapping THEN [w |-> w, ret |-> FALSE]
  ELSE IF w.bootstrap.state = Bootstrapped
            /\ num_good_nodes(w.routing_table) >= GOOD_NODE_THRESHOLD
    THEN [w |-> w, ret |-> FALSE]
  ELSE start(w, dns, sent, perm)

\* TableBootstrap::handle_wake_up_timeout
handle_wake_up_timeout(w, dns, sent, perm) ==
  IF w.bootstrap.state = Bootstrapping THEN [w |-> w, ret |-> FALSE]
  ELSE IF w.bootstrap.state = Bootstrapped
    THEN IF num_good_nodes(w.routing_table) < GOOD_NODE_THRESHOLD
           THEN start(w, dns, sent, perm)
           ELSE [w |-> [w EXCEPT !.timer = idle_timeout_in(w.timer,
                                             PERIODIC_CHECK_TIMEOUT).timer],
                 ret |-> FALSE]
  ELSE start(w, dns, sent, perm)

\* TableBootstrap::recv_timeout
recv_timeout(w, timeout, dns, sent, perm) ==
  IF timeout.kind = "Transaction"
    THEN handle_transaction_timeout(w, timeout.trans_id[1], sent, perm)
    ELSE handle_wake_up_timeout(w, dns, sent, perm)

\* d milliseconds pass: the Timeouts kept in active_message
BootstrapElapse(b, d) ==
  [b EXCEPT !.active_message =
              [k \in DOMAIN b.active_message |-> KeyElapse(b.active_message[k], d)]]

Elapse(w, d) ==
  [w EXCEPT !.bootstrap = BootstrapElapse(w.bootstrap, d),
            !.routing_table = TableElapse(w.routing_table, d),
            !.timer = TimerElapse(w.timer, d)]

(***************************************************************************)
(* The handler of worker/handler.rs as spec.md describes it (4.7, 4.12 and *)
(* 6): one task owning the routing table, the bootstrap, the timer and the *)
(* socket, serving commands, datagrams and timer ticks one at a time.      *)
(***************************************************************************)
\* the node the local node is seeded with, a second node of the network and
\* the local node itself, as NodeHandles <<id, addr>>
SeedNode == <<flip_bit(SelfId, 0), 1>>
PeerNode == <<flip_bit(SelfId, 1), 2>>
SelfNode == <<SelfId, Cardinality(Addrs) + 1>>
Remotes == {SeedNode, PeerNode}

\* the node answering at an address
RemoteAt(addr) == CHOOSE n \in Remotes : n[2] = addr

\* the contacts a find_node response of node can carry
ContactLists(node) ==
  LET others == (Remotes \cup {SelfNode}) \ {node}
  IN  {<<>>} \cup {<<a>> : a \in others}
        \cup {p \in others \X others : p[1] # p[2]}

\* the loop polls the timer after every event
Poll(w) == [w EXCEPT !.timer = poll_next_pending(@)]

\* contacts of a response are incorporated into the routing table
RECURSIVE AddContacts(_, _)
AddContacts(t, contacts) ==
  IF contacts = <<>> THEN t
  ELSE AddContacts(add_node(t, as_questionable(Head(contacts)[1], Head(contacts)[2])),
                   Tail(contacts))

\* an inbound find_node response: the responder is seen responding, its
\* contacts are incorporated, the response is routed to the bootstrap
handle_incoming(w, node, trans_id, contacts, sent, perm) ==
  LET seen == add_node(w.routing_table, as_good(node[1], node[2]))
      known == AddContacts(seen, contacts)
  IN  recv_response([w EXCEPT !.routing_table = known], node[2], trans_id, sent, perm)

\* the handler after a call into the bootstrap: waiters are notified and
\* queued lookups are started when the state crossed the Bootstrapped boundary
CheckQueued == \E i \in 1 .. Len(commands) : commands[i] = "CheckBootstrap"

Notify(r) ==
  LET crossed == r.ret /\ is_bootstrapped(r.w.bootstrap)
  IN  /\ handler' = Poll(r.w)
      /\ bootstrapped' = IF bootstrapped = "Waiting" /\ ~CheckQueued /\ crossed
                           THEN "True"
                           ELSE bootstrapped
      /\ search' = IF search.state = "Queued" /\ crossed
                     THEN [search EXCEPT !.state = "Running"]
                     ELSE search

\* the info hash searched for
SearchedHash == flip_bit(SelfId, IdBits - 1)

\* the peers a node returns for SearchedHash: PeerNode has announced it to
\* SeedNode
Values(node) == IF node = SeedNode THEN <<PeerNode[2]>> ELSE <<>>

\* the peers a TableLookup of SearchedHash yields, its get_peers requests to
\* the closest nodes of the routing table being answered
RECURSIVE LookupValues(_)
LookupValues(nodes) ==
  IF nodes = <<>> THEN <<>>
  ELSE LET rest == LookupValues(Tail(nodes))
           new == Values(handle(Head(nodes)))
           Fresh(a) == \A i \in 1 .. Len(new) : new[i] # a
       IN  new \o SelectSeq(rest, Fresh)

HandlerInit ==
  /\ handler = [bootstrap |-> TableBootstrap_new(MIDGenerator_new(0), {}, {}),
                routing_table |-> RoutingTable_new(SelfId),
                timer |-> Timer_new,
                socket |-> {}]
  /\ commands = <<>>
  /\ running = FALSE
  /\ bootstrapped = "NotCalled"
  /\ search = [state |-> "NotCalled", yielded |-> <<>>]

\* DhtBuilder::start / MainlineDht::with_builder
DhtBuilder_start(routers, nodes) ==
  /\ ~running
  /\ \E shuffled \in Shuffles(generate_aids(0).ids) :
       handler' = [handler EXCEPT !.bootstrap =
                     TableBootstrap_new(
                       AIDGenerator_generate(AIDGenerator_default(shuffled), shuffled).mid,
                       routers, nodes)]
  /\ commands' = <<"StartBootstrap">>
  /\ running' = TRUE
  /\ UNCHANGED <<bootstrapped, search>>
  /\ UNCHANGED exceptHandler

\* MainlineDht::bootstrapped(None), up to the command being sent
MainlineDht_bootstrapped ==
  /\ running
  /\ bootstrapped = "NotCalled"
  /\ commands' = Append(commands, "CheckBootstrap")
  /\ bootstrapped' = "Waiting"
  /\ UNCHANGED <<handler, running, search>>
  /\ UNCHANGED exceptHandler

\* MainlineDht::search(SearchedHash, false), up to the command being sent
MainlineDht_search ==
  /\ running
  /\ search.state = "NotCalled"
  /\ commands' = Append(commands, "StartLookup")
  /\ search' = [search EXCEPT !.state = "Called"]
  /\ UNCHANGED <<handler, running, bootstrapped>>
  /\ UNCHANGED exceptHandler

\* the handler takes the next command
HandleCommand(dns, sent, perm) ==
  /\ commands # <<>>
  /\ commands' = Tail(commands)
  /\ IF Head(commands) = "StartBootstrap"
       THEN Notify(start(handler, dns, sent, perm))
     ELSE IF Head(commands) = "CheckBootstrap"
       THEN /\ handler' = Poll(handler)
            /\ bootstrapped' = IF is_bootstrapped(handler.bootstrap)
                                 THEN "True" ELSE "Waiting"
            /\ UNCHANGED search
     ELSE /\ handler' = Poll(handler)
          /\ search' = [search EXCEPT !.state = IF is_bootstrapped(handler.bootstrap)
                                                  THEN "Running" ELSE "Queued"]
          /\ UNCHANGED bootstrapped
  /\ UNCHANGED running
  /\ UNCHANGED exceptHandler

\* the node at m.addr answers the request m and the handler takes the response
Receive(m, contacts, sent, perm) ==
  /\ m \in handler.socket
  /\ Notify(handle_incoming([handler EXCEPT !.socket = @ \ {m}], RemoteAt(m.addr),
                            m.trans_id, contacts, sent, perm))
  /\ UNCHANGED <<commands, running>>
  /\ UNCHANGED exceptHandler

\* the sleep of the current timer entry ends and the handler takes the tick
TimerTick(dns, sent, perm) ==
  /\ handler.timer.current # <<>>
  /\ LET w == Elapse(handler, handler.timer.current[1].key.deadline)
         p == poll_next_ready(w.timer)
     IN  Notify(recv_timeout([w EXCEPT !.timer = p.timer], p.value, dns, sent, perm))
  /\ UNCHANGED <<commands, running>>
  /\ UNCHANGED exceptHandler

\* a running lookup completes: the peers found are yielded and the stream ends
Lookup ==
  /\ search.state = "Running"
  /\ search' = [state |-> "Ended",
                yielded |-> LookupValues(closest_nodes(handler.routing_table,
                                                       SearchedHash))]
  /\ UNCHANGED <<handler, commands, running, bootstrapped>>
  /\ UNCHANGED exceptHandler

(***************************************************************************)
(* compact.rs and message.rs.  A bencoded value is kept as what serde sees *)
(* of it: an integer, a byte string (a sequence of bytes; a text string    *)
(* for the keys and names the code writes as literals), a list (a sequence *)
(* of values) or a dictionary (a function on the keys present).  A Result  *)
(* is <<value>> for Ok and <<>> for Err.                                   *)
(***************************************************************************)
NODE_ID_LEN == CompactIdLen
SOCKET_ADDR_V4_LEN == Ipv4Len + 2
SOCKET_ADDR_V6_LEN == Ipv6Len + 2

\* SocketAddr::V4 and SocketAddr::V6 (flowinfo and scope_id in one field)
SocketAddrV4(ip, port) == [family |-> "V4", ip |-> ip, port |-> port, scope_id |-> 0]
SocketAddrV6(ip, port, scope_id) ==
  [family |-> "V6", ip |-> ip, port |-> port, scope_id |-> scope_id]

\* u16::to_be_bytes and u16::from_be_bytes, a byte holding ByteBase values
to_be_bytes(port) == <<port \div ByteBase, port % ByteBase>>
from_be_bytes16(src) == (src[1] * ByteBase) + src[2]

\* &src[a..b] with 0-based bounds
Slice(src, a, b) == [i \in 1 .. (b - a) |-> src[a + i]]

\* compact::encode_socket_addr
encode_socket_addr(addr) == addr.ip \o to_be_bytes(addr.port)

\* compact::decode_socket_addr
decode_socket_addr(src) ==
  IF Len(src) = SOCKET_ADDR_V4_LEN
    THEN <<SocketAddrV4(Slice(src, 0, Ipv4Len),
                        from_be_bytes16(Slice(src, Ipv4Len, Len(src))))>>
  ELSE IF Len(src) = SOCKET_ADDR_V6_LEN
    THEN <<SocketAddrV6(Slice(src, 0, Ipv6Len),
                        from_be_bytes16(Slice(src, Ipv6Len, Len(src))), 0)>>
  ELSE <<>>

\* compact::values::serialize
values_serialize(addrs) == [i \in 1 .. Len(addrs) |-> encode_socket_addr(addrs[i])]

\* compact::values::deserialize: the first item that is no address fails the
\* whole list
RECURSIVE values_deserialize_from(_, _, _)
values_deserialize_from(seq, i, output) ==
  IF i > Len(seq) THEN <<output>>
  ELSE LET item == decode_socket_addr(seq[i])
       IN  IF item = <<>> THEN <<>>
           ELSE values_deserialize_from(seq, i + 1, Append(output, item[1]))

values_deserialize(seq) == values_deserialize_from(seq, 1, <<>>)

\* a values::deserialize that leaves out the items that are no address
RECURSIVE values_deserialize_skipping_from(_, _, _)
values_deserialize_skipping_from(seq, i, output) ==
  IF i > Len(seq) THEN <<output>>
  ELSE LET item == decode_socket_addr(seq[i])
       IN  values_deserialize_skipping_from(
             seq, i + 1, IF item = <<>> THEN output ELSE Append(output, item[1]))

\* compact::nodes::serialize
RECURSIVE nodes_serialize_from(_, _, _, _)
nodes_serialize_from(nodes, i, buffer, ADDR_LEN) ==
  IF i > Len(nodes) THEN <<buffer>>
  ELSE LET encoded_addr == encode_socket_addr(nodes[i].addr)
       IN  IF Len(encoded_addr) # ADDR_LEN THEN <<>>
           ELSE nodes_serialize_from(nodes, i + 1,
                                     buffer \o nodes[i].id \o encoded_addr, ADDR_LEN)

nodes_serialize(nodes, ADDR_LEN) == nodes_serialize_from(nodes, 1, <<>>, ADDR_LEN)

\* compact::nodes::deserialize
RECURSIVE nodes_deserialize_from(_, _, _, _)
nodes_deserialize_from(buffer, k, output, ADDR_LEN) ==
  LET size == NODE_ID_LEN + ADDR_LEN
  IN  IF k * size >= Len(buffer) THEN output
      ELSE LET chunk == Slice(buffer, k * size, (k + 1) * size)
               addr == decode_socket_addr(Slice(chunk, NODE_ID_LEN, size))
               more == IF addr = <<>> THEN output
                       ELSE Append(output, [id |-> Slice(chunk, 0, NODE_ID_LEN),
                                            addr |-> addr[1]])
           IN  nodes_deserialize_from(buffer, k + 1, more, ADDR_LEN)

nodes_deserialize(buffer, ADDR_LEN) ==
  IF Len(buffer) % (NODE_ID_LEN + ADDR_LEN) # 0 THEN <<>>
  ELSE <<nodes_deserialize_from(buffer, 0, <<>>, ADDR_LEN)>>

\* a dictionary entry that is written only when present is TRUE
Field(present, key, value) == IF present THEN key :> value ELSE <<>>

Has(dict, key) == key \in DOMAIN dict

\* message::want::serialize
want_serialize(want) ==
  (IF want \in {"V4", "Both"} THEN <<"n4">> ELSE <<>>)
    \o (IF want \in {"V6", "Both"} THEN <<"n6">> ELSE <<>>)

\* message::want::deserialize (WantVisitor::visit_seq)
RECURSIVE want_deserialize_from(_, _, _)
want_deserialize_from(seq, i, value) ==
  IF i > Len(seq) THEN value
  ELSE want_deserialize_from(seq, i + 1,
         IF value = "None" /\ seq[i] = "n4" THEN "V4"
         ELSE IF value = "None" /\ seq[i] = "n6" THEN "V6"
         ELSE IF value = "V4" /\ seq[i] = "n6" THEN "Both"
         ELSE IF value = "V6" /\ seq[i] = "n4" THEN "Both"
         ELSE value)

want_deserialize(seq) == want_deserialize_from(seq, 1, "None")

\* the want field of a request read from its arguments (default when absent)
WantOf(a) == IF Has(a, "want") THEN want_deserialize(a["want"]) ELSE "None"

\* a port::serialize that writes nothing for an absent port
port_serialize_explicit_only(port) ==
  Field(port # <<>>, "port", IF port # <<>> THEN port[1] ELSE 0)

\* message::port::serialize: the entries flattened into the arguments
port_serialize(port) ==
  Field(port # <<>>, "port", IF port # <<>> THEN port[1] ELSE 0)
    @@ Field(port = <<>>, "implied_port", 1)

\* message::port::deserialize: Ok(port) as <<port>>, Err as <<>>
port_deserialize(a) ==
  LET implied_port == IF Has(a, "implied_port") THEN a["implied_port"] > 0 ELSE FALSE
      port == IF Has(a, "port") THEN <<a["port"]>> ELSE <<>>
  IN  IF implied_port THEN <<(<<>>)>>
      ELSE IF port # <<>> THEN <<port>>
      ELSE <<>>

\* Serialize for Request: the name under "q" and the arguments under "a"
Request_serialize(r) ==
  LET a == IF r.kind = "ping" THEN "id" :> r.id
           ELSE IF r.kind = "find_node"
             THEN ("id" :> r.id) @@ ("target" :> r.target)
                    @@ Field(r.want # "None", "want", want_serialize(r.want))
           ELSE IF r.kind = "get_peers"
             THEN ("id" :> r.id) @@ ("info_hash" :> r.info_hash)
                    @@ Field(r.want # "None", "want", want_serialize(r.want))
           ELSE ("id" :> r.id) @@ ("info_hash" :> r.info_hash)
                  @@ port_serialize(r.port) @@ ("token" :> r.token)
  IN  ("q" :> r.kind) @@ ("a" :> a)

\* Deserialize for Request
Request_deserialize(d) ==
  IF ~(Has(d, "q") /\ Has(d, "a")) THEN <<>>
  ELSE
    LET a == d["a"]
    IN  IF d["q"] = "ping"
          THEN IF Has(a, "id") THEN <<[kind |-> "ping", id |-> a["id"]]>> ELSE <<>>
        ELSE IF d["q"] = "find_node"
          THEN IF Has(a, "id") /\ Has(a, "target")
                 THEN <<[kind |-> "find_node", id |-> a["id"], target |-> a["target"],
                         want |-> WantOf(a)]>>
                 ELSE <<>>
        ELSE IF d["q"] = "get_peers"
          THEN IF Has(a, "id") /\ Has(a, "info_hash")
                 THEN <<[kind |-> "get_peers", id |-> a["id"],
                         info_hash |-> a["info_hash"], want |-> WantOf(a)]>>
                 ELSE <<>>
        ELSE IF d["q"] = "announce_peer"
          THEN IF Has(a, "id") /\ Has(a, "info_hash") /\ Has(a, "token")
                    /\ port_deserialize(a) # <<>>
                 THEN <<[kind |-> "announce_peer", id |-> a["id"],
                         info_hash |-> a["info_hash"], port |-> port_deserialize(a)[1],
                         token |-> a["token"]]>>
                 ELSE <<>>
        ELSE <<>>

\* Serialize for Response: Err when a handle is of the other address family
Response_serialize(r) ==
  LET nodes == nodes_serialize(r.nodes_v4, SOCKET_ADDR_V4_LEN)
      nodes6 == nodes_serialize(r.nodes_v6, SOCKET_ADDR_V6_LEN)
  IN  IF (r.nodes_v4 # <<>> /\ nodes = <<>>) \/ (r.nodes_v6 # <<>> /\ nodes6 = <<>>)
        THEN <<>>
        ELSE <<("id" :> r.id)
                 @@ Field(r.values # <<>>, "values", values_serialize(r.values))
                 @@ Field(r.nodes_v4 # <<>>, "nodes", IF nodes = <<>> THEN <<>> ELSE nodes[1])
                 @@ Field(r.nodes_v6 # <<>>, "nodes6", IF nodes6 = <<>> THEN <<>> ELSE nodes6[1])
                 @@ Field(r.token # <<>>, "token", IF r.token = <<>> THEN <<>> ELSE r.token[1])>>

\* Deserialize for Response
Response_deserialize(r) ==
  LET values == IF Has(r, "values") THEN values_deserialize(r["values"]) ELSE <<(<<>>)>>
      nodes == IF Has(r, "nodes") THEN nodes_deserialize(r["nodes"], SOCKET_ADDR_V4_LEN)
               ELSE <<(<<>>)>>
      nodes6 == IF Has(r, "nodes6") THEN nodes_deserialize(r["nodes6"], SOCKET_ADDR_V6_LEN)
                ELSE <<(<<>>)>>
  IN  IF ~Has(r, "id") \/ values = <<>> \/ nodes = <<>> \/ nodes6 = <<>> THEN <<>>
      ELSE <<[kind |-> "response", id |-> r["id"], values |-> values[1],
              nodes_v4 |-> nodes[1], nodes_v6 |-> nodes6[1],
              token |-> IF Has(r, "token") THEN <<r["token"]>> ELSE <<>>]>>

\* Serialize for Error: a list of the code and the message
Error_serialize(e) == <<e.code, e.message>>

\* Deserialize for Error (ErrorVisitor::visit_seq)
Error_deserialize(seq) ==
  IF Len(seq) # 2 THEN <<>>
  ELSE <<[kind |-> "error", code |-> seq[1], message |-> seq[2]]>>

\* serde_bencoded::to_vec for Message, down to the bencoded dictionary
encode(m) ==
  LET t == "t" :> m.transaction_id
  IN  IF m.body.kind = "response"
        THEN IF Response_serialize(m.body) = <<>> THEN <<>>
             ELSE <<t @@ ("y" :> "r") @@ ("r" :> Response_serialize(m.body)[1])>>
      ELSE IF m.body.kind = "error"
        THEN <<t @@ ("y" :> "e") @@ ("e" :> Error_serialize(m.body))>>
      ELSE <<t @@ ("y" :> "q") @@ Request_serialize(m.body)>>

\* serde_bencoded::from_bytes for Message, from the bencoded dictionary
decode(d) ==
  IF ~(Has(d, "t") /\ Has(d, "y")) THEN <<>>
  ELSE
    LET body == IF d["y"] = "q" THEN Request_deserialize(d)
                ELSE IF d["y"] = "r"
                  THEN IF Has(d, "r") THEN Response_deserialize(d["r"]) ELSE <<>>
                ELSE IF d["y"] = "e"
                  THEN IF Has(d, "e") THEN Error_deserialize(d["e"]) ELSE <<>>
                ELSE <<>>
    IN  IF body = <<>> THEN <<>>
        ELSE <<[transaction_id |-> d["t"], body |-> body[1]]>>

(***************************************************************************)
(* Messages encoded and decoded, and dictionaries received from the wire.  *)
(***************************************************************************)
\* n bytes, the last one being b
BytesOf(n, b) == [i \in 1 .. n |-> IF i = n THEN b ELSE 0]

\* all the sequences over S of at most n items
UpTo(S, n) == UNION {[1 .. k -> S] : k \in 0 .. n}

CodecIds == {BytesOf(NODE_ID_LEN, 0), BytesOf(NODE_ID_LEN, 1)}

\* two IPv4 and two IPv6 addresses, one of them with a scope id
CodecAddrs ==
  {SocketAddrV4(BytesOf(Ipv4Len, 0), 1),
   SocketAddrV4(BytesOf(Ipv4Len, 1), ByteBase),
   SocketAddrV6(BytesOf(Ipv6Len, 1), ByteBase + 1, 0),
   SocketAddrV6(BytesOf(Ipv6Len, 0), 0, 1)}

CodecHandles == {[id |-> BytesOf(NODE_ID_LEN, 1), addr |-> a] : a \in CodecAddrs}

CodecTokens == {<<>>, <<1>>}

CodecWants == {"None", "V4", "V6", "Both"}

CodecPorts == {<<>>, <<0>>, <<(ByteBase * ByteBase) - 1>>}

CodecRequests ==
  {[kind |-> "ping", id |-> i] : i \in CodecIds}
    \cup {[kind |-> "find_node", id |-> i, target |-> t, want |-> w] :
            i \in CodecIds, t \in CodecIds, w \in CodecWants}
    \cup {[kind |-> "get_peers", id |-> i, info_hash |-> h, want |-> w] :
            i \in CodecIds, h \in CodecIds, w \in CodecWants}
    \cup {[kind |-> "announce_peer", id |-> i, info_hash |-> h, port |-> p, token |-> t] :
            i \in CodecIds, h \in CodecIds, p \in CodecPorts, t \in CodecTokens}

CodecResponses ==
  {[kind |-> "response", id |-> i, values |-> v, nodes_v4 |-> n4, nodes_v6 |-> n6,
    token |-> t] :
     i \in CodecIds, v \in UpTo(CodecAddrs, MaxContacts), n4 \in UpTo(CodecHandles, 1),
     n6 \in UpTo(CodecHandles, 1), t \in {<<>>} \cup {<<k>> : k \in CodecTokens}}

CodecErrors ==
  {[kind |-> "error", code |-> c, message |-> s] : c \in {201, 203}, s \in {"", "x"}}

CodecTransactionIds == {<<0>>, <<1, 0>>}

\* the compact contacts a remote node may send: addresses, and byte strings
\* that are one byte short or one byte long
WireContacts ==
  {encode_socket_addr(a) : a \in {c \in CodecAddrs : c.scope_id = 0}}
    \cup {BytesOf(SOCKET_ADDR_V4_LEN - 1, 1), BytesOf(SOCKET_ADDR_V6_LEN + 1, 1)}

\* the compact node strings a remote node may send for ADDR_LEN: up to two
\* contacts, followed or not by a contact cut short
WireNodes(ADDR_LEN) ==
  LET whole == {BytesOf(NODE_ID_LEN, 1) \o BytesOf(ADDR_LEN, b) : b \in {0, 1}}
      cut == {<<>>, BytesOf(NODE_ID_LEN, 1)}
  IN  {c : c \in cut} \cup {w \o c : w \in whole, c \in cut}
        \cup {w \o v \o c : w \in whole, v \in whole, c \in cut}

\* the response dictionaries received
WireResponses ==
  {("t" :> t) @@ ("y" :> "r")
     @@ ("r" :> (("id" :> i) @@ Field(v # <<>>, "values", v)
                   @@ Field(n4 # <<>>, "nodes", n4) @@ Field(n6 # <<>>, "nodes6", n6))) :
     t \in CodecTransactionIds, i \in CodecIds, v \in UpTo(WireContacts, MaxContacts),
     n4 \in WireNodes(SOCKET_ADDR_V4_LEN), n6 \in WireNodes(SOCKET_ADDR_V6_LEN)}

\* the announce_peer dictionaries received: with port, implied_port, both or
\* neither
WireAnnounces ==
  {("t" :> <<0>>) @@ ("y" :> "q") @@ ("q" :> "announce_peer")
     @@ ("a" :> (("id" :> i) @@ ("info_hash" :> i) @@ ("token" :> <<1>>)
                   @@ Field(p # <<>>, "port", IF p # <<>> THEN p[1] ELSE 0)
                   @@ Field(f # <<>>, "implied_port", IF f # <<>> THEN f[1] ELSE 0))) :
     i \in CodecIds, p \in {<<>>, <<0>>, <<1>>}, f \in {<<>>, <<0>>, <<1>>}}

CodecInit ==
  /\ codec_msg = <<>>
  /\ codec_wire = <<>>
  /\ codec_decoded = <<>>

\* nothing has been encoded or received yet: encode and decode are pure
\* functions, each input is given to them once, from the initial state
CodecIdle ==
  /\ codec_msg = <<>>
  /\ codec_wire = <<>>
  /\ codec_decoded = <<>>

\* a message is encoded, and what was encoded is decoded
CodecRoundTrip(m) ==
  /\ CodecIdle
  /\ codec_msg' = <<m>>
  /\ codec_wire' = encode(m)
  /\ codec_decoded' = IF encode(m) = <<>> THEN <<>> ELSE decode(encode(m)[1])
  /\ UNCHANGED exceptCodec

\* a dictionary arrives and is decoded
CodecReceive(d) ==
  /\ CodecIdle
  /\ codec_msg' = <<>>
  /\ codec_wire' = <<d>>
  /\ codec_decoded' = decode(d)
  /\ UNCHANGED exceptCodec

(***************************************************************************)
(* One Node under the calls the routing table and the workers make on it   *)
(* and the passing of time.                                                *)
(***************************************************************************)
\* the durations the clock advances by
NodeSteps == {LastSeen - 1, LastSeen}

\* the nodes a Node is built as or updated with
NodeCandidates == {as_good(1, 1), as_questionable(1, 1), as_bad(1, 1)}

NodeInit ==
  /\ node_now = as_bad(1, 1)
  /\ node_last = [op |-> "new", before |-> as_bad(1, 1)]
  /\ node_requests = 0

\* Node::as_good, Node::as_questionable, Node::as_bad
NodeNew(n) ==
  /\ node_now' = n
  /\ node_last' = [op |-> "new", before |-> node_now]
  /\ node_requests' = 0
  /\ UNCHANGED exceptNode

\* Node::update: a Good other is a response of the node being recorded, and
\* a Bad node is replaced by the Questionable node heard of
NodeUpdate(other) ==
  /\ node_now' = update(node_now, other)
  /\ node_last' = [op |-> "update", before |-> node_now]
  /\ node_requests' = IF \/ status(other) = Good
                           \/ (status(node_now) = Bad /\ status(other) = Questionable)
                        THEN 0 ELSE node_requests
  /\ UNCHANGED exceptNode

\* Node::local_request
NodeLocalRequest ==
  /\ node_now.refresh_requests < MaxRefreshRequests
  /\ node_now' = local_request(node_now)
  /\ node_last' = [op |-> "local_request", before |-> node_now]
  /\ node_requests' = IF status(node_now) = Good THEN node_requests
                      ELSE node_requests + 1
  /\ UNCHANGED exceptNode

\* Node::remote_request
NodeRemoteRequest ==
  /\ node_now' = remote_request(node_now)
  /\ node_last' = [op |-> "remote_request", before |-> node_now]
  /\ UNCHANGED node_requests
  /\ UNCHANGED exceptNode

\* time passes without any message
NodeTick(d) ==
  /\ node_now' = NodeElapse(node_now, d)
  /\ node_now' # node_now
  /\ node_last' = [op |-> "tick", before |-> node_now]
  /\ UNCHANGED node_requests
  /\ UNCHANGED exceptNode

(***************************************************************************)
(* A stand-alone Timer under schedule_in, schedule_at, cancel, poll_next   *)
(* and the passing of time.                                                *)
(***************************************************************************)
\* schedule calls explored: fewer than the ids of the model's width, as the
\* u64 id of the code does not wrap within any run
MaxSchedules == 3

\* the deadlines handed to schedule_at, relative to Instant::now(): just
\* passed, now, and one or two milliseconds ahead
TimerDeadlines == -1 .. 2

\* the durations handed to schedule_in
TimerDurations == 0 .. 2

\* the values scheduled (ScheduledTaskCheck in the handler)
TimerValues == {"TableRefresh", "BootstrapTimeout"}

\* the entries of a timer: the current one and the queued ones
TimerEntries(t) ==
  t.queue \cup (IF t.current = <<>> THEN {} ELSE {t.current[1]})

\* the entries of a state the user holds a handle of
Held(state) == {[key |-> h.key, value |-> h.value] : h \in {x \in timer_handles : x.state = state}}

TimerInit ==
  /\ timer_now = Timer_new
  /\ timer_handles = {}
  /\ timer_last = [op |-> "new", key |-> Timeout(0, 0), held |-> "", ret |-> <<>>,
                   before |-> Timer_new]
  /\ timer_clock = 0

\* Timer::schedule_at
TimerScheduleAt(deadline, value) ==
  /\ Cardinality(timer_handles) < MaxSchedules
  /\ LET r == schedule_at(timer_now, deadline, value)
     IN  /\ timer_now' = r.timer
         /\ timer_handles' =
              timer_handles \cup {[key |-> r.key, value |-> value, state |-> "pending"]}
         /\ timer_last' = [op |-> "schedule", key |-> r.key, held |-> "", ret |-> <<>>,
                           before |-> timer_now]
  /\ UNCHANGED timer_clock
  /\ UNCHANGED exceptTimer

\* Timer::schedule_in
TimerScheduleIn(duration, value) ==
  /\ Cardinality(timer_handles) < MaxSchedules
  /\ LET r == schedule_in(timer_now, duration, value)
     IN  /\ timer_now' = r.timer
         /\ timer_handles' =
              timer_handles \cup {[key |-> r.key, value |-> value, state |-> "pending"]}
         /\ timer_last' = [op |-> "schedule", key |-> r.key, held |-> "", ret |-> <<>>,
                           before |-> timer_now]
  /\ UNCHANGED timer_clock
  /\ UNCHANGED exceptTimer

\* Timer::cancel with a handle some schedule call returned
TimerCancel(h) ==
  /\ LET r == cancel(timer_now, h.key)
     IN  /\ timer_now' = r.timer
         /\ timer_handles' =
              IF h.state = "pending"
                THEN (timer_handles \ {h}) \cup {[h EXCEPT !.state = "cancelled"]}
                ELSE timer_handles
         /\ timer_last' = [op |-> "cancel", key |-> h.key, held |-> h.state,
                           ret |-> <<r.ret>>,
                           before |-> timer_now]
  /\ UNCHANGED timer_clock
  /\ UNCHANGED exceptTimer

\* Stream::poll_next
TimerPollNext ==
  /\ LET r == poll_next(timer_now)
     IN  /\ timer_now' = r.timer
         /\ timer_handles' =
              {IF r.item # <<>> /\ h.key = r.key /\ h.state = "pending"
                 THEN [h EXCEPT !.state = "yielded"] ELSE h : h \in timer_handles}
         /\ timer_last' = [op |-> "poll_next", key |-> r.key, held |-> "", ret |-> r.item,
                           before |-> timer_now]
  /\ UNCHANGED timer_clock
  /\ UNCHANGED exceptTimer

\* a millisecond passes
TimerAdvance ==
  /\ timer_clock < MaxTimerClock
  /\ timer_now' = TimerElapse(timer_now, 1)
  /\ timer_handles' = {[h EXCEPT !.key = KeyElapse(h.key, 1)] : h \in timer_handles}
  /\ timer_last' = [op |-> "advance", key |-> Timeout(0, 0), held |-> "", ret |-> <<>>,
                    before |-> timer_now]
  /\ timer_clock' = timer_clock + 1
  /\ UNCHANGED exceptTimer

(***************************************************************************)
(* Specifications.                                                         *)
(***************************************************************************)
\* every component freshly constructed
(***************************************************************************)
(* One TableBootstrap under the calls the handler makes on it: start,      *)
(* recv_response and recv_timeout, with the routing table the handler      *)
(* passes in and the timer it schedules on.                                *)
(***************************************************************************)
\* starting nodes, one more than the initial round waits for, and the
\* addresses a send can succeed for
BootSeeds == 1 .. (PINGS_PER_BUCKET + 1)
BootAddrs == Addrs \cup BootSeeds

\* the name of the router configured, and what resolving it can give
BootRouter == "router"
BootDns == {BootRouter :> {}, BootRouter :> {2}}

\* the networks: the router is resolved or not, every send succeeds or none
\* does, and every request sent is answered before its timeout or none is,
\* one answer then coming after the timeout of its request
BootEnvs ==
  {e \in [dns : BootDns, sent : {BootAddrs, {}}, answered : BOOLEAN, late : BOOLEAN] :
     e.late = ~e.answered}

\* the k-th node the routing table comes to know: two ids for every number of
\* leading bits shared with the local id, fewest first
BootNode(k) ==
  LET index == (k - 1) \div 2
  IN  as_good(bitxor(flip_bit(SelfId, index),
                     IF index = IdBits - 1 THEN 0 ELSE (k - 1) % 2), 1)

\* the routing table after the first goods of these nodes were added, age
\* milliseconds ago
BootTable(goods, age) ==
  TableElapse(AddAll(RoutingTable_new(SelfId), [k \in 1 .. goods |-> BootNode(k)], 1),
              age)

\* the numbers of nodes the routing table holds when the bootstrap is built
BootGoods == {0, MaxGoodNodes - 1, MaxGoodNodes}

\* how long ago they answered: just now, one periodic check short of
\* Questionable, and long enough to be Questionable
BootAges == {0, LastSeen - PERIODIC_CHECK_TIMEOUT, LastSeen}

\* the IdleWakeUp entries a timer holds
WakeUps(t) == {e \in TimerEntries(t) : e.value = IdleWakeUp}

\* TableBootstrap::new for the first node of a network, on a new routing table
BootWorker(routers, nodes, goods, age) ==
  [bootstrap |-> TableBootstrap_new(MIDGenerator_new(0), routers, nodes),
   routing_table |-> BootTable(goods, age),
   timer |-> Timer_new,
   socket |-> {}]

\* what a call was given: the address and the timeout (of a response, the
\* Transaction of its transaction id)
BootArg(addr, timeout) == [addr |-> addr, timeout |-> timeout]

BootInit ==
  /\ boot_w = BootWorker({}, {}, 0, 0)
  /\ boot_phase = "built"
  /\ boot_calls = 0
  /\ boot_env = [dns |-> BootRouter :> {}, sent |-> BootAddrs, answered |-> TRUE,
                 late |-> FALSE]
  /\ boot_failed = 0
  /\ boot_last = [op |-> "new", ret |-> FALSE, before |-> BootWorker({}, {}, 0, 0),
                  arg |-> BootArg(0, IdleWakeUp)]

\* the transaction ids id_generator has handed out, its blocks being taken
\* in order
BootGenerated(g) ==
  {TransactionID_new(BitOr(g.action_id, i)) :
     i \in 0 .. (g.next_alloc - MESSAGE_ID_PRE_ALLOC_LEN + g.current_index - 1)}

\* what a call into the bootstrap leaves: the socket keeps the requests sent
\* that are still active, and boot_failed counts the attempts in a row that
\* ended past the last bucket without enough good nodes.  The ids of the
\* code (24 bits of message id, a u64 of timer id) do not wrap within a run,
\* so the calls stop before those of the model do
BootCalled(op, arg, r) ==
  LET before == boot_w.bootstrap
      after == r.w.bootstrap
      ended == before.state = Bootstrapping /\ after.state # Bootstrapping
  IN  /\ boot_calls < MaxBootCalls
      /\ after.id_generator.next_alloc >= before.id_generator.next_alloc
      /\ r.w.timer.next_id >= boot_w.timer.next_id
      /\ boot_calls' = boot_calls + 1
      /\ boot_w' = [r.w EXCEPT !.socket =
                      {m \in @ : m.trans_id \in DOMAIN after.active_message}]
      /\ boot_last' = [op |-> op, ret |-> r.ret, before |-> boot_w, arg |-> arg]
      /\ boot_failed' =
           IF ended /\ after.state = IdleBeforeReBootstrap
             THEN Min(boot_failed + 1, MaxAttempts)
           ELSE IF after.state = Bootstrapping THEN boot_failed
           ELSE 0

\* TableBootstrap::new, with the routing table and the network it will work on
BootNew(routers, nodes, goods, age, env) ==
  /\ boot_phase = "built"
  /\ boot_last.op = "new"
  /\ boot_w = boot_last.before
  /\ boot_w.bootstrap.routers = {} /\ boot_w.bootstrap.starting_nodes = {}
  /\ boot_w.routing_table = RoutingTable_new(SelfId)
  /\ boot_env.dns[BootRouter] = {} /\ boot_env.sent = BootAddrs /\ boot_env.answered
  /\ nodes = BootSeeds => ~env.answered
  /\ boot_w' = BootWorker(routers, nodes, goods, age)
  /\ boot_env' = env
  /\ boot_last' = [op |-> "new", ret |-> FALSE,
                   before |-> BootWorker(routers, nodes, goods, age),
                   arg |-> BootArg(0, IdleWakeUp)]
  /\ UNCHANGED <<boot_phase, boot_calls, boot_failed>>
  /\ UNCHANGED exceptBoot

\* the first start(), on the StartBootstrap command
BootStart(perm) ==
  /\ boot_phase = "built"
  /\ boot_phase' = "started"
  /\ BootCalled("start", BootArg(0, IdleWakeUp),
                start(boot_w, boot_env.dns, boot_env.sent, perm))
  /\ UNCHANGED boot_env
  /\ UNCHANGED exceptBoot

\* the requests answered next: the oldest and the newest of the active ones
BootAnswerable ==
  LET active == DOMAIN boot_w.bootstrap.active_message
  IN  {t \in active :
         \/ \A u \in active : from_be_bytes(t.bytes) <= from_be_bytes(u.bytes)
         \/ \A u \in active : from_be_bytes(t.bytes) >= from_be_bytes(u.bytes)}

\* recv_response: the node at addr answers a request sent to it that is
\* still active
BootResponse(addr, trans_id, perm) ==
  /\ boot_phase = "started"
  /\ boot_env.answered
  /\ Datagram(addr, trans_id) \in boot_w.socket
  /\ BootCalled("recv_response", BootArg(addr, Transaction(trans_id)),
                recv_response(boot_w, addr, trans_id, boot_env.sent, perm))
  /\ UNCHANGED <<boot_phase, boot_env>>
  /\ UNCHANGED exceptBoot

\* the transaction ids a late answer carries: the first one handed out, and
\* the one the last call resolved
BootLateIds ==
  {TransactionID_new(boot_w.bootstrap.id_generator.action_id)}
    \cup {boot_last.arg.timeout.trans_id[i] :
            i \in 1 .. Len(boot_last.arg.timeout.trans_id)}

\* recv_response with an answer that comes too late: its request was sent
\* with a transaction id that is active no more
BootLateResponse(addr, trans_id, perm) ==
  /\ boot_phase = "started"
  /\ boot_env.late
  /\ trans_id \in BootLateIds \cap BootGenerated(boot_w.bootstrap.id_generator)
  /\ trans_id \notin DOMAIN boot_w.bootstrap.active_message
  /\ BootCalled("recv_response", BootArg(addr, Transaction(trans_id)),
                recv_response(boot_w, addr, trans_id, boot_env.sent, perm))
  /\ boot_env' = [boot_env EXCEPT !.late = FALSE]
  /\ UNCHANGED boot_phase
  /\ UNCHANGED exceptBoot

\* the sleep of the timer's first entry ends: recv_timeout with what it yields
BootTimeout(perm) ==
  /\ boot_phase = "started"
  /\ boot_env.answered => boot_w.socket = {}
  /\ poll_next_pending(boot_w.timer).current # <<>>
  /\ LET armed == [boot_w EXCEPT !.timer = poll_next_pending(@)]
         w == Elapse(armed, Max(armed.timer.current[1].key.deadline, 0))
         p == poll_next_ready(w.timer)
     IN  BootCalled(IF p.value = IdleWakeUp THEN "wake_up" ELSE "timeout",
                    BootArg(0, p.value),
                    recv_timeout([w EXCEPT !.timer = p.timer], p.value, boot_env.dns,
                                 boot_env.sent, perm))
  /\ UNCHANGED <<boot_phase, boot_env>>
  /\ UNCHANGED exceptBoot

(***************************************************************************)
(* worker/refresh.rs: TableRefresh.  The operators work on the state lent  *)
(* to it: w = [refresh, routing_table, timer, socket], socket being the    *)
(* find_node requests the last call sent.                                  *)
(***************************************************************************)
REFRESH_INTERVAL_TIMEOUT == 6000
REFRESH_CONCURRENCY == 4

\* ScheduledTaskCheck::TableRefresh
TableRefreshCheck == [kind |-> "TableRefresh", trans_id |-> <<>>]

\* TableRefresh::new
TableRefresh_new(id_generator) ==
  [id_generator |-> id_generator, current_refresh_bucket |-> 0]

\* a selection that takes the closest nodes whatever their status
refresh_nodes_any_status(t, target_id) ==
  LET Wanted(n) == ~recently_requested_from(n)
      taken == Take(SelectSeq(closest_nodes(t, target_id), Wanted), REFRESH_CONCURRENCY)
  IN  [i \in 1 .. Len(taken) |-> handle(taken[i])]

\* the handles continue_refresh collects: the closest Questionable nodes not
\* requested from recently, REFRESH_CONCURRENCY at most
refresh_nodes(t, target_id) ==
  LET Wanted(n) == status(n) = Questionable /\ ~recently_requested_from(n)
      taken == Take(SelectSeq(closest_nodes(t, target_id), Wanted), REFRESH_CONCURRENCY)
  IN  [i \in 1 .. Len(taken) |-> handle(taken[i])]

\* the loop of continue_refresh from the i-th node on; a send that fails is
\* logged and the request is recorded all the same
RECURSIVE refresh_requests_from(_, _, _, _, _)
refresh_requests_from(w, nodes, i, sent, perm) ==
  IF i > Len(nodes) THEN w
  ELSE
    LET node == nodes[i]
        g == generate(w.refresh.id_generator, perm)
        trans_id == g.tid
        socket == IF node[2] \in sent
                    THEN w.socket \cup {Datagram(node[2], trans_id)}
                    ELSE w.socket
        found == find_node_mut(w.routing_table, node)
        requested == IF found = <<>> THEN w.routing_table
                     ELSE [w.routing_table EXCEPT
                             !.buckets[found[1] + 1][found[2]] = local_request(@)]
    IN  refresh_requests_from([w EXCEPT !.refresh.id_generator = g.gen,
                                        !.socket = socket,
                                        !.routing_table = requested],
                              nodes, i + 1, sent, perm)

\* TableRefresh::continue_refresh: the state afterwards, the index given to
\* flip_bit (which panics at MAX_BUCKETS and above) and the handles collected
continue_refresh(w, sent, perm) ==
  LET index == IF w.refresh.current_refresh_bucket = MAX_BUCKETS
                 THEN 0
                 ELSE w.refresh.current_refresh_bucket
      panicked == index >= MAX_BUCKETS
      target_id == IF panicked THEN w.routing_table.node_id
                   ELSE flip_bit(w.routing_table.node_id, index)
      nodes == refresh_nodes(w.routing_table, target_id)
      r == refresh_requests_from([w EXCEPT !.socket = {}], nodes, 1, sent, perm)
      timer == schedule_in(r.timer, REFRESH_INTERVAL_TIMEOUT, TableRefreshCheck).timer
  IN  IF panicked
        THEN [w |-> w, index |-> index, nodes |-> <<>>, panicked |-> TRUE]
        ELSE [w |-> [r EXCEPT !.timer = timer,
                              !.refresh.current_refresh_bucket = index + 1],
              index |-> index, nodes |-> nodes, panicked |-> FALSE]

(***************************************************************************)
(* A stand-alone TableRefresh: the routing table it is given, its calls    *)
(* every REFRESH_INTERVAL_TIMEOUT and the answers of the nodes it asked.   *)
(***************************************************************************)
\* the nodes of the routing table: two per ideal bucket index
RefreshNodes == 3 * BucketSlots

RefreshHandle(k) ==
  <<flip_bit(SelfId, (k - 1) \div BucketSlots), ((k - 1) % BucketSlots) + 1>>

\* the addresses of these nodes
RefreshAddrs == 1 .. BucketSlots

\* how many of them the table was given, and which of those as Good nodes
RefreshSizes == {0, 1, RefreshNodes - 1, RefreshNodes}
RefreshGoods == {{}, {1}, {k \in 1 .. RefreshNodes : k % 2 = 0}, 1 .. RefreshNodes}

RefreshTable(n, goods) ==
  AddAll(RoutingTable_new(SelfId),
         [k \in 1 .. n |-> IF k \in goods
                             THEN as_good(RefreshHandle(k)[1], RefreshHandle(k)[2])
                             ELSE as_questionable(RefreshHandle(k)[1], RefreshHandle(k)[2])],
         1)

RefreshWorker(n, goods) ==
  [refresh |-> TableRefresh_new(MIDGenerator_new(0)),
   routing_table |-> RefreshTable(n, goods),
   timer |-> Timer_new,
   socket |-> {}]

\* what refresh_last holds after a call
RefreshCall(op, before, index, nodes, panicked) ==
  [op |-> op, before |-> before, index |-> index, nodes |-> nodes,
   panicked |-> panicked]

RefreshInit ==
  /\ refresh_w = RefreshWorker(0, {})
  /\ refresh_calls = 0
  /\ refresh_last = RefreshCall("init", RefreshWorker(0, {}), 0, <<>>, FALSE)

\* d milliseconds pass
RefreshElapse(w, d) ==
  [w EXCEPT !.routing_table = TableElapse(w.routing_table, d),
            !.timer = TimerElapse(w.timer, d)]

\* TableRefresh::new, with the routing table it will work on
RefreshNew(n, goods) ==
  /\ refresh_last.op = "init"
  /\ refresh_w' = RefreshWorker(n, goods)
  /\ refresh_last' = RefreshCall("new", RefreshWorker(n, goods), 0, <<>>, FALSE)
  /\ UNCHANGED refresh_calls
  /\ UNCHANGED exceptRefresh

\* a call of continue_refresh
RefreshCalled(before, r) ==
  /\ refresh_calls < MaxRefreshTicks
  /\ ~refresh_last.panicked
  /\ r.w.refresh.id_generator.next_alloc >= before.refresh.id_generator.next_alloc
  /\ refresh_w' = r.w
  /\ refresh_calls' = refresh_calls + 1
  /\ refresh_last' = RefreshCall("continue_refresh", before, r.index, r.nodes,
                                 r.panicked)

\* the first call of continue_refresh
RefreshStart(sent, perm) ==
  /\ refresh_last.op = "new"
  /\ RefreshCalled(refresh_w, continue_refresh(refresh_w, sent, perm))
  /\ UNCHANGED exceptRefresh

\* the sleep of the TableRefresh entry ends: continue_refresh is called again
RefreshTimeout(sent, perm) ==
  /\ refresh_last.op \notin {"init", "new"}
  /\ poll_next_pending(refresh_w.timer).current # <<>>
  /\ LET armed == [refresh_w EXCEPT !.timer = poll_next_pending(@)]
         w == RefreshElapse(armed, Max(armed.timer.current[1].key.deadline, 0))
         p == poll_next_ready(w.timer)
         before == [w EXCEPT !.timer = p.timer]
     IN  /\ p.value = TableRefreshCheck
         /\ RefreshCalled(before, continue_refresh(before, sent, perm))
  /\ UNCHANGED exceptRefresh

\* the first node the last call asked answers: the handler adds it as a Good
\* node
RefreshAnswer ==
  /\ refresh_last.op = "continue_refresh"
  /\ refresh_last.nodes # <<>>
  /\ LET node == refresh_last.nodes[1]
     IN  /\ \E m \in refresh_w.socket : m.addr = node[2]
         /\ refresh_w' = [refresh_w EXCEPT
                            !.routing_table = add_node(@, as_good(node[1], node[2])),
                            !.socket = {m \in @ : m.addr # node[2]}]
         /\ refresh_last' = RefreshCall("answer", refresh_w, refresh_last.index,
                                        <<node>>, FALSE)
  /\ UNCHANGED refresh_calls
  /\ UNCHANGED exceptRefresh

(***************************************************************************)
(* The routing table under add_node calls that collide: nodes sharing the  *)
(* longest prefix with the local id or none of it, one handle more of each *)
(* than a bucket holds, with the requests the refresh makes to the nodes   *)
(* of the table and the passing of time.                                   *)
(***************************************************************************)
SplitAddrs == 1 .. (MAX_BUCKET_SIZE + 1)

\* ids sharing MAX_BUCKETS - 1, MAX_BUCKETS - 2 and 0 leading bits with SelfId
DeepId == flip_bit(SelfId, MAX_BUCKETS - 1)
NearId == flip_bit(SelfId, MAX_BUCKETS - 2)
FarId == flip_bit(SelfId, 0)

SplitHandles == {<<i, a>> : i \in {DeepId, FarId}, a \in SplitAddrs}

\* the nodes handed to add_node
SplitCandidates ==
  {as_good(h[1], h[2]) : h \in SplitHandles}
    \cup {as_questionable(h[1], h[2]) : h \in SplitHandles}
    \cup {as_good(NearId, 1), as_good(SelfId, 1), as_bad(DeepId, 1), as_bad(FarId, 1)}

\* RoutingTable::add_node
SplitAdd(node) ==
  /\ adds < MaxSplitAdds
  /\ table' = add_node(table, node)
  /\ adds' = adds + 1
  /\ table_last' = TableCall("add_node", node)
  /\ UNCHANGED exceptRouting

\* find_node_mut and Node::local_request, as continue_refresh calls them
SplitRequest(h) ==
  /\ adds < MaxSplitAdds
  /\ find_node_mut(table, h) # <<>>
  /\ LET found == find_node_mut(table, h)
     IN  table' = [table EXCEPT !.buckets[found[1] + 1][found[2]] = local_request(@)]
  /\ adds' = adds + 1
  /\ table_last' = TableCall("local_request", as_bad(h[1], h[2]))
  /\ UNCHANGED exceptRouting

Init ==
  /\ TableInit
  /\ BucketInit
  /\ StorageInit
  /\ TidInit
  /\ HandlerInit
  /\ NodeInit
  /\ TimerInit
  /\ CodecInit
  /\ BootInit
  /\ RefreshInit

TableNext ==
  \/ \E node \in Candidates : AddNode(node)
  \/ TableTick

SpecTable == Init /\ [][TableNext]_vars

SplitNext ==
  \/ \E node \in SplitCandidates : SplitAdd(node)
  \/ \E h \in SplitHandles : SplitRequest(h)
  \/ TableTick

SpecSplit == Init /\ [][SplitNext]_vars

RefreshNext ==
  \/ /\ refresh_last.op = "init"
     /\ \E n \in RefreshSizes, goods \in RefreshGoods : RefreshNew(n, goods)
  \/ \E sent \in {RefreshAddrs, {}}, perm \in Perms : RefreshStart(sent, perm)
  \/ \E sent \in {RefreshAddrs, {}}, perm \in Perms : RefreshTimeout(sent, perm)
  \/ RefreshAnswer

SpecRefresh == Init /\ [][RefreshNext]_vars

BucketNext ==
  \/ \E node \in BucketCandidates : BucketAdd(node)
  \/ \E i \in 1 .. MAX_BUCKET_SIZE : BucketLocalRequest(i)
  \/ \E i \in 1 .. MAX_BUCKET_SIZE : BucketRemoteRequest(i)
  \/ BucketWait
  \/ BucketTick

SpecBucket == Init /\ [][BucketNext]_vars

StorageNext ==
  \/ \E h \in InfoHashes, a \in StorageAddrs : StorageAdd(h, a)
  \/ \E h \in InfoHashes : StorageFind(h)
  \/ \E d \in StorageSteps : StorageTick(d)

SpecStorage == Init /\ [][StorageNext]_vars

TidNext ==
  \/ AidGenerate
  \/ MidGenerate

SpecTid == Init /\ [][TidNext]_vars

NodeNext ==
  \/ \E n \in NodeCandidates : NodeNew(n)
  \/ \E other \in NodeCandidates : NodeUpdate(other)
  \/ NodeLocalRequest
  \/ NodeRemoteRequest
  \/ \E d \in NodeSteps : NodeTick(d)

SpecNode == Init /\ [][NodeNext]_vars

TimerNext ==
  \/ \E deadline \in TimerDeadlines, value \in TimerValues :
       TimerScheduleAt(deadline, value)
  \/ \E duration \in TimerDurations, value \in TimerValues :
       TimerScheduleIn(duration, value)
  \/ \E h \in timer_handles : TimerCancel(h)
  \/ TimerPollNext
  \/ TimerAdvance

SpecTimer == Init /\ [][TimerNext]_vars

CodecNext ==
  \/ /\ CodecIdle
     /\ \E t \in CodecTransactionIds, r \in CodecRequests :
          CodecRoundTrip([transaction_id |-> t, body |-> r])
  \/ /\ CodecIdle
     /\ \E t \in CodecTransactionIds, r \in CodecResponses :
          CodecRoundTrip([transaction_id |-> t, body |-> r])
  \/ /\ CodecIdle
     /\ \E t \in CodecTransactionIds, e \in CodecErrors :
          CodecRoundTrip([transaction_id |-> t, body |-> e])
  \/ /\ CodecIdle
     /\ \E d \in WireResponses : CodecReceive(d)
  \/ /\ CodecIdle
     /\ \E d \in WireAnnounces : CodecReceive(d)

SpecCodec == Init /\ [][CodecNext]_vars

\* the ids of a block are taken in the order they were allocated in
BootPerm == [i \in 1 .. MESSAGE_ID_PRE_ALLOC_LEN |-> i]

BootNext ==
  \/ \E routers \in {{}, {BootRouter}}, nodes \in {{}, {SeedNode[2]}, BootSeeds} :
       \E goods \in BootGoods, age \in BootAges, env \in BootEnvs :
         BootNew(routers, nodes, goods, age, env)
  \/ BootStart(BootPerm)
  \/ \E addr \in Addrs, trans_id \in BootAnswerable :
       BootResponse(addr, trans_id, BootPerm)
  \/ \E trans_id \in BootLateIds : BootLateResponse(SeedNode[2], trans_id, BootPerm)
  \/ BootTimeout(BootPerm)

SpecBootstrap == Init /\ [][BootNext]_vars

\* the timer has an entry whose sleep ends (no request sent is waiting for
\* the answer that comes first), and a request sent is answered
BootTimeoutDue ==
  /\ boot_phase = "started"
  /\ boot_calls < MaxBootCalls
  /\ boot_env.answered => boot_w.socket = {}
  /\ TimerEntries(boot_w.timer) # {}

BootResponseDue ==
  /\ boot_phase = "started"
  /\ boot_calls < MaxBootCalls
  /\ boot_env.answered
  /\ boot_w.socket # {}

\* the event loop polls the timer again after every event, so a sleep that
\* ends is handled; in the networks that answer, an answer is received
SpecBootstrapFair ==
  /\ SpecBootstrap
  /\ []<>(~BootTimeoutDue) \/ []<><<BootTimeout(BootPerm)>>_vars
  /\ []<>(~BootResponseDue)
       \/ []<><<\E addr \in Addrs, trans_id \in BootAnswerable :
                  BootResponse(addr, trans_id, BootPerm)>>_vars

\* the local node is started without any contact (the first node of a
\* network) or with SeedNode as its only contact; no router is configured, so
\* nothing is resolved; every send succeeds, and every request is answered
\* before any sleep of the timer ends
NoRouters == <<>>

DhtStart == \E nodes \in {{}, {SeedNode[2]}} : DhtBuilder_start({}, nodes)

DhtCommand == \E perm \in Perms : HandleCommand(NoRouters, Addrs, perm)

DhtReceive ==
  \E m \in handler.socket : \E contacts \in ContactLists(RemoteAt(m.addr)) :
    \E perm \in Perms : Receive(m, contacts, Addrs, perm)

\* timer entries a node schedules before its sleeps stop ending: the u64 id
\* of the code does not wrap within any run
MaxDhtTimers == 24

DhtTick ==
  /\ handler.socket = {}
  /\ handler.timer.next_id < MaxDhtTimers
  /\ \E perm \in Perms : TimerTick(NoRouters, Addrs, perm)

DhtNext ==
  \/ DhtStart
  \/ MainlineDht_bootstrapped
  \/ MainlineDht_search
  \/ DhtCommand
  \/ DhtReceive
  \/ DhtTick
  \/ Lookup

\* the user makes its calls, and the handler task and the remote nodes keep
\* running: weak fairness of every action, ENABLED being written out as the
\* guard for the actions that call into the bootstrap and the routing table
SpecDht ==
  /\ Init
  /\ [][DhtNext]_vars
  /\ WF_vars(DhtStart)
  /\ WF_vars(MainlineDht_bootstrapped)
  /\ WF_vars(MainlineDht_search)
  /\ ([]<>(commands = <<>>) \/ []<><<DhtCommand>>_vars)
  /\ ([]<>(handler.socket = {}) \/ []<><<DhtReceive>>_vars)
  /\ ([]<>(\/ handler.timer.current = <<>>
           \/ handler.socket # {}
           \/ handler.timer.next_id >= MaxDhtTimers) \/ []<><<DhtTick>>_vars)
  /\ ([]<>(search.state # "Running") \/ []<><<Lookup>>_vars)

(***************************************************************************)
(* Properties of the routing table.                                        *)
(***************************************************************************)
\* the local node has been started with SeedNode as its only contact
Seeded ==
  /\ running
  /\ handler.bootstrap.routers = {}
  /\ handler.bootstrap.starting_nodes = {SeedNode[2]}

Origin ==
  /\ running
  /\ handler.bootstrap.routers = {}
  /\ handler.bootstrap.starting_nodes = {}

\* the StartBootstrap command is the next one the handler takes
StartQueued == commands # <<>> /\ Head(commands) = "StartBootstrap"

\* C16: with neither routers nor nodes to start from, the first start() makes
\* the state Bootstrapped, returns true and sends nothing (and schedules
\* nothing); the node stays that way.
C16_OriginBootstrapsAtOnce ==
  Origin =>
    IF StartQueued
      THEN \A perm \in Perms :
             LET r == start(handler, NoRouters, Addrs, perm)
             IN  /\ r.ret
                 /\ is_bootstrapped(r.w.bootstrap)
                 /\ r.w.bootstrap.bootstrap_attempt = 0
                 /\ r.w.socket = handler.socket
                 /\ r.w.timer = handler.timer
                 /\ handler.socket = {}
      ELSE /\ is_bootstrapped(handler.bootstrap)
           /\ handler.socket = {}
           /\ Timer_is_empty(handler.timer)

\* start() has run on such a node and the caller of bootstrapped() was told
C16_Witness ==
  /\ Origin
  /\ ~StartQueued
  /\ is_bootstrapped(handler.bootstrap)
  /\ bootstrapped = "True"

\* C3: for every table the add_node calls can build and for every target id,
\* the closest-nodes iteration yields every Good or Questionable node of the
\* table exactly once (and nothing else).
C3_EveryPingableOnce ==
  \A target \in Ids :
    LET out == closest_nodes(table, target)
        all == Flatten(table.buckets)
    IN  /\ \A i \in 1 .. Len(all) :
             is_ping_able(all[i]) => Count(out, handle(all[i])) = 1
        /\ \A i \in 1 .. Len(out) :
             \E j \in 1 .. Len(all) : is_ping_able(all[j]) /\ all[j] = out[i]

\* C15: for every target, of two nodes the closest-nodes iteration yields
\* from different bucket indices, the one yielded later shares no more leading
\* bits with the target than the one yielded earlier.
C15_ClosestFirst ==
  \A target \in Ids :
    LET out == closest_nodes(table, target)
        Index(n) == leading_bit_count(table.node_id, n.id)
        Shared(n) == leading_zeros(bitxor(n.id, target))
    IN  \A i \in 1 .. Len(out) : \A j \in (i + 1) .. Len(out) :
          Index(out[i]) # Index(out[j]) => Shared(out[j]) <= Shared(out[i])

\* C4: every Good or Questionable node of the table sits in the bucket whose
\* index is min(leading_zeros(self XOR id), number of buckets - 1).
C4_Placement ==
  \A b \in 1 .. Len(table.buckets) :
    \A i \in 1 .. MAX_BUCKET_SIZE :
      LET n == table.buckets[b][i]
          lz == leading_zeros(bitxor(table.node_id, n.id))
          last == Len(table.buckets) - 1
      IN  is_ping_able(n) => (b - 1) = (IF lz < last THEN lz ELSE last)

\* a table that has split, holding pingable nodes in a sorted bucket and in
\* the last bucket
C4_Witness ==
  /\ Len(table.buckets) >= 2
  /\ \E i \in 1 .. MAX_BUCKET_SIZE : is_ping_able(table.buckets[1][i])
  /\ \E i \in 1 .. MAX_BUCKET_SIZE :
       /\ is_ping_able(table.buckets[Len(table.buckets)][i])
       /\ leading_zeros(bitxor(table.node_id, table.buckets[Len(table.buckets)][i].id))
            > Len(table.buckets) - 1

(***************************************************************************)
(* Properties of the bucket.                                               *)
(***************************************************************************)
\* the case of C5, on the recorded call: the incoming node is not Bad, no slot
\* holds its handle and no slot has a strictly lower status
C5_Case ==
  /\ bucket_adds > 0
  /\ status(bucket_last.node) # Bad
  /\ \A i \in 1 .. MAX_BUCKET_SIZE :
       /\ handle(bucket_last.before[i]) # handle(bucket_last.node)
       /\ ~(status(bucket_last.before[i]) < status(bucket_last.node))

\* C5: Bucket.add_node of a node that is not Bad, whose handle is in no slot,
\* into a bucket without a slot of strictly lower status returns false and
\* leaves every slot as it was.
C5_FullBucketRejects ==
  C5_Case => (bucket_last.ret = FALSE /\ bucket_last.after = bucket_last.before)

\* such a call has been made: a Questionable node offered to a bucket of
\* Questionable and Good nodes
C5_Witness ==
  /\ C5_Case
  /\ status(bucket_last.node) = Questionable
  /\ \E i \in 1 .. MAX_BUCKET_SIZE : status(bucket_last.before[i]) = Questionable
  /\ bucket = bucket_last.before

(***************************************************************************)
(* Properties of the announce storage.                                     *)
(***************************************************************************)
\* the pair of the recorded call
LastPair == <<storage_last.info_hash, storage_last.address>>

\* how many entries of a sequence of ItemExpirations are for the pair p
CountPair(seq, p) ==
  Cardinality({i \in 1 .. Len(seq) : seq[i].info_hash = p[1] /\ seq[i].address = p[2]})

\* the items stored under all keys
StoredCount(map) ==
  Cardinality({<<k, i>> \in (DOMAIN map) \X (1 .. MAX_ITEMS_STORED + 1) : i <= Len(map[k])})

\* C6: the storage never holds more than MAX_ITEMS_STORED items; add_item of a
\* pair that is not stored, while MAX_ITEMS_STORED unexpired items are stored,
\* returns false and leaves the result of find_items unchanged for every hash.
C6_Capacity ==
  /\ Len(expires) <= MAX_ITEMS_STORED
  /\ StoredCount(storage) <= MAX_ITEMS_STORED
  /\ (/\ storage_last.op = "add"
      /\ LastPair \notin storage_last.live
      /\ Cardinality(storage_last.live) = MAX_ITEMS_STORED)
       => /\ storage_last.ret = FALSE
          /\ \A h \in InfoHashes :
               find(storage_last.after, h).items = find(storage_last.before, h).items

\* an add_item refused at capacity
C6_Witness ==
  /\ storage_last.op = "add"
  /\ LastPair \notin storage_last.live
  /\ Cardinality(storage_last.live) = MAX_ITEMS_STORED
  /\ storage_last.ret = FALSE
  /\ Len(expires) = MAX_ITEMS_STORED

\* the pairs live once the recorded call has returned
LiveAfter ==
  IF storage_last.op = "add" /\ storage_last.ret
    THEN storage_last.live \cup {LastPair}
    ELSE storage_last.live

\* C7: find_items yields an address exactly while less than 25 hours have
\* passed since the pair's last accepted add_item; from 25 hours on the item
\* is gone, its key is dropped with its last item, and it no longer counts
\* toward the capacity, so an add_item of a new pair succeeds whenever fewer
\* than MAX_ITEMS_STORED pairs are live.
C7_Expiry ==
  /\ storage_last.op = "find" =>
       /\ {storage_last.items[i] : i \in 1 .. Len(storage_last.items)}
            = {p[2] : p \in {q \in storage_last.live : q[1] = storage_last.info_hash}}
       /\ Len(storage_last.items)
            = Cardinality({q \in storage_last.live : q[1] = storage_last.info_hash})
  /\ storage_last.op \in {"add", "find"} =>
       /\ DOMAIN storage_last.after.storage = {p[1] : p \in LiveAfter}
       /\ Len(storage_last.after.expires) = Cardinality(LiveAfter)
       /\ \A p \in Pairs :
            CountPair(storage_last.after.expires, p) = (IF p \in LiveAfter THEN 1 ELSE 0)
  /\ (/\ storage_last.op = "add"
      /\ LastPair \notin storage_last.live
      /\ Cardinality(storage_last.live) < MAX_ITEMS_STORED)
       => storage_last.ret = TRUE

\* an add_item of a new pair accepted by a storage whose MAX_ITEMS_STORED
\* entries had expired in part
C7_Witness ==
  /\ storage_last.op = "add"
  /\ storage_last.ret = TRUE
  /\ LastPair \notin storage_last.live
  /\ Len(storage_last.before.expires) = MAX_ITEMS_STORED
  /\ Cardinality(storage_last.live) < MAX_ITEMS_STORED
  /\ \E p \in Pairs : last_added[p] # NONE /\ p \notin LiveAfter

\* C8: add_item of a pair that is stored and unexpired is a renewal: it
\* returns true also at capacity, the number of stored items is unchanged,
\* the pair is stored once, and its lifetime restarts (its expiration moves
\* to the end of the expiration order with a fresh insertion time).
C8_Renewal ==
  (storage_last.op = "add" /\ LastPair \in storage_last.live) =>
    LET after == storage_last.after
        purged == remove_expired_items(storage_last.before)
        h == storage_last.info_hash
    IN  /\ storage_last.ret = TRUE
        /\ Len(after.expires) = Cardinality(storage_last.live)
        /\ StoredCount(after.storage) = StoredCount(purged.storage)
        /\ CountPair(after.expires, LastPair) = 1
        /\ h \in DOMAIN after.storage
        /\ Cardinality({i \in 1 .. Len(after.storage[h]) :
                          after.storage[h][i].expiration.address = storage_last.address}) = 1
        /\ after.expires[Len(after.expires)].info_hash = h
        /\ after.expires[Len(after.expires)].address = storage_last.address
        /\ after.expires[Len(after.expires)].inserted = 0

\* a renewal at capacity of the pair that was first in the expiration order
C8_Witness ==
  /\ storage_last.op = "add"
  /\ LastPair \in storage_last.live
  /\ Cardinality(storage_last.live) = MAX_ITEMS_STORED
  /\ storage_last.ret = TRUE
  /\ storage_last.before.expires[1].info_hash = storage_last.info_hash
  /\ storage_last.before.expires[1].address = storage_last.address
  /\ storage_last.before.expires[1].inserted > 0

(***************************************************************************)
(* Properties of the transaction ids.                                      *)
(***************************************************************************)
\* count ids, pairwise distinct and below max, were served block by block:
\* every block before the current one completely, the rest from the current
BlockWise(seen, count, len, max) ==
  /\ Cardinality(seen) = count
  /\ count <= max
  /\ \A id \in seen : 0 <= id /\ id < max /\ id \div len <= (count - 1) \div len
  /\ \A id \in 0 .. (max - 1) : id \div len < count \div len => id \in seen

\* C9: the action ids of an AIDGenerator are pairwise distinct until
\* MAX_ACTION_ID of them were handed out, the message ids of a MIDGenerator
\* until MAX_MESSAGE_ID, and so are the transaction ids; every preallocated
\* block is served completely before the next, and after the block ending at
\* the maximum the first block [0, PRE_ALLOC_LEN) is served again.
C9_UniqueIds ==
  /\ BlockWise(aid_seen, aid_count, ACTION_ID_PRE_ALLOC_LEN, MAX_ACTION_ID)
  /\ BlockWise(mid_seen, mid_count, MESSAGE_ID_PRE_ALLOC_LEN, MAX_MESSAGE_ID)
  /\ Cardinality(tid_seen) = mid_count
  /\ mid_gen # <<>> =>
       /\ MIDGenerator_action_id(mid_gen[1]) \in aid_seen
       /\ \A t \in tid_seen :
            ActionID_from_transaction_id(t) = MIDGenerator_action_id(mid_gen[1])

\* both generators have wrapped and are serving their first block again
C9_Witness ==
  /\ aid_wrapped
  /\ mid_wrapped
  /\ aid_count = 1
  /\ mid_count = MESSAGE_ID_PRE_ALLOC_LEN
  /\ mid_seen = 0 .. (MESSAGE_ID_PRE_ALLOC_LEN - 1)

EverResponded(n) == n.last_response # NONE

\* the Instant lies within the last MAX_LAST_SEEN_MINS
Recent(t) == t # NONE /\ t < LastSeen

\* C11: a node that has ever responded, and whose last response or last
\* query to us came within the last 15 minutes, is Good, whatever its
\* refresh_requests; a node that has never responded is Bad.
C11_GoodWhenHeardFrom ==
  /\ (/\ EverResponded(node_now)
      /\ Recent(node_now.last_response) \/ Recent(node_now.last_request))
       => status(node_now) = Good
  /\ ~EverResponded(node_now) => status(node_now) = Bad

\* C12: a Questionable node is still Questionable after one local_request and
\* Bad after the second one made with no response recorded in between;
\* local_request on a Good node sets last_local_request and leaves
\* refresh_requests as it is.
C12_BadAfterTwoRequests ==
  /\ status(node_now) = Questionable => node_requests < MAX_REFRESH_REQUESTS
  /\ node_requests >= MAX_REFRESH_REQUESTS => status(node_now) = Bad
  /\ node_last.op = "local_request" =>
       /\ node_now.last_local_request = 0
       /\ status(node_last.before) = Good =>
            node_now.refresh_requests = node_last.before.refresh_requests
       /\ (status(node_last.before) = Questionable /\ node_requests = 1) =>
            status(node_now) = Questionable
       /\ (status(node_last.before) = Questionable /\ node_requests = 2) =>
            status(node_now) = Bad

C12_Witness ==
  /\ node_last.op = "local_request"
  /\ status(node_last.before) = Questionable
  /\ node_requests = MAX_REFRESH_REQUESTS
  /\ status(node_now) = Bad


(***************************************************************************)
(* Properties of the timer.                                                *)
(***************************************************************************)
\* C13: the timer holds exactly the entries scheduled and neither cancelled
\* nor yielded, each once; poll_next yields the entry that is least by
\* (deadline, id) among them, also when it was scheduled while a later entry
\* was armed, and yields whenever the deadline of some entry has come.
C13_YieldsInOrder ==
  /\ TimerEntries(timer_now) = Held("pending")
  /\ \A e, o \in TimerEntries(timer_now) : e.key = o.key => e = o
  /\ timer_now.current # <<>> => timer_now.current[1] \notin timer_now.queue
  /\ timer_last.op = "poll_next" =>
       IF timer_last.ret # <<>>
         THEN /\ [key |-> timer_last.key, value |-> timer_last.ret[1]]
                   \in TimerEntries(timer_last.before)
              /\ \A e \in TimerEntries(timer_last.before) :
                   e.key = timer_last.key \/ TimeoutLess(timer_last.key, e.key)
              /\ [key |-> timer_last.key, value |-> timer_last.ret[1]]
                   \in Held("yielded")
         ELSE \A e \in TimerEntries(timer_last.before) : e.key.deadline > 0

\* an entry scheduled later than one the timer still holds is yielded first
C13_Witness ==
  /\ timer_last.op = "poll_next"
  /\ timer_last.ret # <<>>
  /\ \E e \in TimerEntries(timer_now) :
       e.key.id < timer_last.key.id /\ e.key.deadline > timer_last.key.deadline
  /\ Held("cancelled") # {}

\* C14: cancel returns true exactly when the entry of the handle has been
\* neither yielded nor cancelled yet, be it queued or armed; it then removes
\* that entry and no other, and the entry is not held again; otherwise the
\* timer is left as it was.
C14_CancelRemovesOne ==
  /\ \A h \in timer_handles :
       h.state = "cancelled" => \A e \in TimerEntries(timer_now) : e.key # h.key
  /\ timer_last.op = "cancel" =>
       /\ timer_last.ret = <<timer_last.held = "pending">>
       /\ TimerEntries(timer_now) =
            {e \in TimerEntries(timer_last.before) : e.key # timer_last.key}
       /\ timer_last.held = "pending" =>
            \E e \in TimerEntries(timer_last.before) : e.key = timer_last.key
       /\ timer_last.held # "pending" => timer_now = timer_last.before

\* the armed entry is cancelled while others are queued
C14_Witness ==
  /\ timer_last.op = "cancel"
  /\ timer_last.ret = <<TRUE>>
  /\ timer_last.before.current # <<>>
  /\ timer_last.before.current[1].key = timer_last.key
  /\ timer_now.queue # {}
  /\ Held("yielded") # {}


(***************************************************************************)
(* Properties of the messages.                                             *)
(***************************************************************************)
\* the handles of nodes are IPv4 ones and those of nodes6 IPv6 ones, and no
\* IPv6 address carries a flow or scope id
Encodable(m) ==
  m.body.kind = "response" =>
    /\ \A i \in 1 .. Len(m.body.nodes_v4) : m.body.nodes_v4[i].addr.family = "V4"
    /\ \A i \in 1 .. Len(m.body.nodes_v6) :
         /\ m.body.nodes_v6[i].addr.family = "V6"
         /\ m.body.nodes_v6[i].addr.scope_id = 0
    /\ \A i \in 1 .. Len(m.body.values) : m.body.values[i].scope_id = 0

\* the arguments of codec_wire, an announce_peer request
AnnounceArgs == codec_wire[1]["a"]

IsAnnounce ==
  /\ codec_wire # <<>>
  /\ codec_wire[1]["y"] = "q"
  /\ codec_wire[1]["q"] = "announce_peer"

\* an absent port is written as implied_port = 1 with no port, and a
\* non-zero implied_port read makes the port absent whatever port says
ImpliedPort ==
  IsAnnounce =>
    /\ (codec_msg # <<>> /\ codec_msg[1].body.port = <<>>) =>
         /\ ~Has(AnnounceArgs, "port")
         /\ Has(AnnounceArgs, "implied_port")
         /\ AnnounceArgs["implied_port"] = 1
    /\ (Has(AnnounceArgs, "implied_port") /\ AnnounceArgs["implied_port"] # 0) =>
         /\ codec_decoded # <<>>
         /\ codec_decoded[1].body.port = <<>>

\* C17 as stated: every message encoded is decoded to itself.
C17_RoundTrip ==
  /\ codec_msg # <<>> => (codec_wire # <<>> /\ codec_decoded = codec_msg)
  /\ ImpliedPort

\* C17: every message whose nodes are IPv4 handles, whose nodes6 are IPv6
\* handles and whose IPv6 addresses carry no scope id is encoded, and decoded
\* to itself; an absent announce port is written as implied_port = 1, and a
\* non-zero implied_port read takes precedence over a port.
C17_RoundTripEncodable ==
  /\ (codec_msg # <<>> /\ Encodable(codec_msg[1])) =>
       (codec_wire # <<>> /\ codec_decoded = codec_msg)
  /\ ImpliedPort

\* an announce_peer without port has made the round trip
C17_Witness ==
  /\ codec_msg # <<>>
  /\ codec_msg[1].body.kind = "announce_peer"
  /\ codec_msg[1].body.port = <<>>
  /\ codec_decoded = codec_msg

\* the nodes a compact node string holds once what is left over after the
\* last whole contact is dropped
WholeNodes(buffer, ADDR_LEN) ==
  nodes_deserialize_from(
    Slice(buffer, 0, Len(buffer) - (Len(buffer) % (NODE_ID_LEN + ADDR_LEN))),
    0, <<>>, ADDR_LEN)

\* C18: a response received is decoded whatever its contacts are, and what
\* is delivered are its well-formed contacts: the values that are addresses
\* and the whole contacts of nodes and nodes6.
C18_MalformedSkipped ==
  (codec_msg = <<>> /\ codec_wire # <<>> /\ codec_wire[1]["y"] = "r") =>
    LET r == codec_wire[1]["r"]
    IN  /\ codec_decoded # <<>>
        /\ codec_decoded[1].body.values =
             (IF Has(r, "values")
                THEN values_deserialize_skipping_from(r["values"], 1, <<>>)[1]
                ELSE <<>>)
        /\ codec_decoded[1].body.nodes_v4 =
             (IF Has(r, "nodes") THEN WholeNodes(r["nodes"], SOCKET_ADDR_V4_LEN)
              ELSE <<>>)
        /\ codec_decoded[1].body.nodes_v6 =
             (IF Has(r, "nodes6") THEN WholeNodes(r["nodes6"], SOCKET_ADDR_V6_LEN)
              ELSE <<>>)


(***************************************************************************)
(* Properties of the bootstrap.                                            *)
(***************************************************************************)
\* the last call made the bootstrap Bootstrapped
BecameBootstrapped ==
  /\ boot_phase = "started"
  /\ is_bootstrapped(boot_w.bootstrap)
  /\ ~is_bootstrapped(boot_last.before.bootstrap)

\* the last call ended the per-bucket phase: a response or a transaction
\* timeout took the bootstrap out of Bootstrapping
PhaseEnded ==
  /\ boot_phase = "started"
  /\ boot_last.op \in {"recv_response", "timeout"}
  /\ boot_last.before.bootstrap.state = Bootstrapping
  /\ boot_w.bootstrap.state # Bootstrapping

\* the last call scheduled an IdleWakeUp duration milliseconds ahead
WakeUpIn(duration) ==
  \E e \in WakeUps(boot_w.timer) :
    e.key = Timeout(duration, boot_last.before.timer.next_id)

GoodNodes == num_good_nodes(boot_w.routing_table)

\* C19: the bootstrap becomes Bootstrapped only when no router and no seed is
\* configured, or when the per-bucket phase has gone past the last bucket
\* with at least GOOD_NODE_THRESHOLD Good nodes in the routing table, the
\* periodic check then being scheduled and the attempt counter being 0; a
\* phase that ends with fewer Good nodes leaves IdleBeforeReBootstrap with a
\* wake-up scheduled.
C19_BootstrappedTwoWays ==
  /\ BecameBootstrapped =>
       \/ /\ boot_w.bootstrap.routers = {}
          /\ boot_w.bootstrap.starting_nodes = {}
       \/ /\ PhaseEnded
          /\ boot_w.bootstrap.current_bootstrap_bucket >= MAX_BUCKETS
          /\ GoodNodes >= GOOD_NODE_THRESHOLD
          /\ boot_w.bootstrap.bootstrap_attempt = 0
          /\ WakeUpIn(PERIODIC_CHECK_TIMEOUT)
  /\ (PhaseEnded /\ GoodNodes < GOOD_NODE_THRESHOLD) =>
       /\ boot_w.bootstrap.state = IdleBeforeReBootstrap
       /\ boot_w.bootstrap.current_bootstrap_bucket >= MAX_BUCKETS
       /\ \E e \in WakeUps(boot_w.timer) :
            /\ e.key.id = boot_last.before.timer.next_id
            /\ e.key.deadline > 0

\* a seeded bootstrap has ended its phase with enough Good nodes
C19_Witness ==
  /\ BecameBootstrapped
  /\ PhaseEnded
  /\ boot_w.bootstrap.starting_nodes # {}
  /\ GoodNodes >= GOOD_NODE_THRESHOLD

\* the last call computed the retry delay
RetryComputed == PhaseEnded /\ boot_w.bootstrap.state = IdleBeforeReBootstrap

\* C20: whenever the retry delay is computed the attempt counter is at least
\* 1 and the wake-up is scheduled 2^min(attempts, 9) seconds ahead, which for
\* the k-th attempt in a row that ended without enough Good nodes is
\* 2^min(k, 9) seconds.
C20_Backoff ==
  RetryComputed =>
    /\ boot_last.before.bootstrap.bootstrap_attempt >= 1
    /\ WakeUpIn(Pow2(Min(boot_last.before.bootstrap.bootstrap_attempt, 9)) * 1000)
    /\ WakeUpIn(Pow2(Min(boot_failed, 9)) * 1000)

\* the last call ran start(): the StartBootstrap command, or an IdleWakeUp
\* met in IdleBeforeReBootstrap, or in Bootstrapped with fewer than
\* GOOD_NODE_THRESHOLD Good nodes
StartRan ==
  /\ boot_phase = "started"
  /\ \/ boot_last.op = "start"
     \/ /\ boot_last.op = "wake_up"
        /\ \/ boot_last.before.bootstrap.state = IdleBeforeReBootstrap
           \/ /\ boot_last.before.bootstrap.state = Bootstrapped
              /\ GoodNodes < GOOD_NODE_THRESHOLD

\* routers are configured and resolving them gave no address
Unresolved ==
  /\ boot_w.bootstrap.routers # {}
  /\ resolve(boot_w.bootstrap.routers, boot_env.dns) = {}

\* C21: a start() whose routers are configured and resolve to no address
\* schedules the NO_NETWORK_TIMEOUT wake-up and leaves the state
\* IdleBeforeReBootstrap with no request sent, so no initial round is started
\* by that call, seed nodes or not.
C21_UnresolvedStaysIdle ==
  (StartRan /\ Unresolved) =>
    /\ WakeUpIn(NO_NETWORK_TIMEOUT)
    /\ boot_w.bootstrap.state = IdleBeforeReBootstrap
    /\ boot_w.socket = {}

\* C22: start(), recv_response() and recv_timeout() return true exactly when
\* is_bootstrapped() after the call differs from is_bootstrapped() before it.
C22_ReturnsBoundaryCrossed ==
  boot_phase = "started" =>
    (boot_last.ret <=>
       (is_bootstrapped(boot_w.bootstrap)
          # is_bootstrapped(boot_last.before.bootstrap)))

\* the run was cut at MaxBootCalls calls
BootCut == boot_calls = MaxBootCalls

\* every outstanding transaction has its timeout in the timer, no further
\* ahead than INITIAL_TIMEOUT in the initial round and NODE_TIMEOUT after it
TimeoutsArmed ==
  boot_w.bootstrap.state = Bootstrapping =>
    \A trans_id \in DOMAIN boot_w.bootstrap.active_message :
      \E e \in TimerEntries(boot_w.timer) :
        /\ e.key = boot_w.bootstrap.active_message[trans_id]
        /\ e.value = Transaction(trans_id)
        /\ e.key.deadline <= IF boot_w.bootstrap.current_bootstrap_bucket = 0
                               THEN INITIAL_TIMEOUT ELSE NODE_TIMEOUT

\* within an attempt current_bootstrap_bucket never decreases, strictly
\* increases with every new round of requests, and is past the last bucket
\* when the attempt ends
BucketAdvances ==
  /\ (boot_w.bootstrap.state = Bootstrapping
        /\ boot_w'.bootstrap.state = Bootstrapping) =>
       /\ boot_w'.bootstrap.current_bootstrap_bucket
            >= boot_w.bootstrap.current_bootstrap_bucket
       /\ ~(DOMAIN boot_w'.bootstrap.active_message
              \subseteq DOMAIN boot_w.bootstrap.active_message) =>
            boot_w'.bootstrap.current_bootstrap_bucket
              > boot_w.bootstrap.current_bootstrap_bucket
  /\ (boot_w.bootstrap.state = Bootstrapping
        /\ boot_w'.bootstrap.state # Bootstrapping) =>
       boot_w'.bootstrap.current_bootstrap_bucket >= MAX_BUCKETS

\* C23: every attempt that enters Bootstrapping leaves it again, answers or
\* not: every outstanding transaction has its timeout armed (INITIAL_TIMEOUT
\* in the initial round, NODE_TIMEOUT per node), and current_bootstrap_bucket
\* strictly increases from round to round until it is past the last bucket.
C23_AttemptEnds ==
  /\ []TimeoutsArmed
  /\ [][BucketAdvances]_vars
  /\ (boot_w.bootstrap.state = Bootstrapping)
       ~> (boot_w.bootstrap.state # Bootstrapping \/ BootCut)

\* an attempt that went through requests to the nodes of the routing table
\* has ended without any answer
C23_Witness ==
  /\ PhaseEnded
  /\ ~boot_env.answered
  /\ boot_last.op = "timeout"
  /\ boot_last.before.bootstrap.current_bootstrap_bucket > 0
  /\ ~BootCut

\* the transaction ids outstanding
Active(w) == DOMAIN w.bootstrap.active_message

\* the transaction id the last response or transaction timeout carried
LastTid == boot_last.arg.timeout.trans_id[1]

\* the last call was a response or a transaction timeout
TransactionCall ==
  /\ boot_phase = "started"
  /\ boot_last.op \in {"recv_response", "timeout"}

\* the last call was one received in the per-bucket phase
PerBucketCall ==
  /\ TransactionCall
  /\ boot_last.before.bootstrap.state = Bootstrapping
  /\ boot_last.before.bootstrap.current_bootstrap_bucket > 0

\* two bootstraps differ in nothing but the time left to their timeouts
SameBootstrap(a, b) ==
  /\ DOMAIN a.active_message = DOMAIN b.active_message
  /\ \A k \in DOMAIN a.active_message : a.active_message[k].id = b.active_message[k].id
  /\ [a EXCEPT !.active_message = <<>>] = [b EXCEPT !.active_message = <<>>]

\* C24: in the per-bucket phase a transaction is resolved by the first of its
\* response and its timeout to be handled, which takes its id out of
\* active_message and leaves no timeout of it in the timer; a response or a
\* timeout with an id that is not outstanding is ignored; the next bucket is
\* started only by the call that resolves the last outstanding transaction;
\* and at most PINGS_PER_BUCKET transactions are outstanding.
C24_ResolvedOnce ==
  /\ Cardinality(Active(boot_w)) <= PINGS_PER_BUCKET
  /\ PerBucketCall =>
       /\ LastTid \in Active(boot_last.before) =>
            /\ LastTid \notin Active(boot_w)
            /\ \A e \in TimerEntries(boot_w.timer) : e.value # Transaction(LastTid)
            /\ Active(boot_last.before) # {LastTid} =>
                 /\ Active(boot_w) = Active(boot_last.before) \ {LastTid}
                 /\ boot_w.bootstrap.current_bootstrap_bucket
                      = boot_last.before.bootstrap.current_bootstrap_bucket
                 /\ boot_w.bootstrap.state = Bootstrapping
       /\ LastTid \notin Active(boot_last.before) =>
            /\ ~boot_last.ret
            /\ SameBootstrap(boot_w.bootstrap, boot_last.before.bootstrap)
       /\ boot_w.bootstrap.current_bootstrap_bucket
            > boot_last.before.bootstrap.current_bootstrap_bucket =>
            Active(boot_last.before) = {LastTid}

\* with PINGS_PER_BUCKET requests outstanding one timed out, and the answer
\* to it came afterwards
C24_Witness ==
  /\ PerBucketCall
  /\ boot_last.op = "recv_response"
  /\ LastTid \notin Active(boot_last.before)
  /\ Cardinality(Active(boot_w)) = PINGS_PER_BUCKET - 1

\* the last call was a response or a transaction timeout received in the
\* initial round
InitialCall ==
  /\ TransactionCall
  /\ boot_last.before.bootstrap.state = Bootstrapping
  /\ boot_last.before.bootstrap.current_bootstrap_bucket = 0

\* the last call cleared its transaction id and went on to the buckets
Advanced ==
  /\ LastTid \notin Active(boot_w)
  /\ boot_w.bootstrap.current_bootstrap_bucket > 0
  /\ \A e \in TimerEntries(boot_w.timer) : e.value # Transaction(LastTid)

\* C25: in the initial round every request carries the one outstanding
\* transaction id; a response with it adds the responder's address to
\* initial_responses, and the id is cleared and the bootstrap advances when
\* those addresses number initial_responses_expected, or when the
\* INITIAL_TIMEOUT fires; until then nothing else changes; a response with an
\* id that is not outstanding changes nothing.
C25_InitialRound ==
  /\ (boot_w.bootstrap.state = Bootstrapping
        /\ boot_w.bootstrap.current_bootstrap_bucket = 0) =>
       /\ Cardinality(Active(boot_w)) = 1
       /\ \A m \in boot_w.socket : m.trans_id \in Active(boot_w)
       /\ \A trans_id \in Active(boot_w) :
            boot_w.bootstrap.active_message[trans_id].deadline <= INITIAL_TIMEOUT
  /\ (InitialCall /\ LastTid \in Active(boot_last.before)) =>
       LET seen == boot_last.before.bootstrap.initial_responses \cup {boot_last.arg.addr}
       IN  IF boot_last.op = "timeout" THEN Advanced
           ELSE IF Cardinality(seen)
                     >= boot_last.before.bootstrap.initial_responses_expected
             THEN Advanced
           ELSE /\ ~boot_last.ret
                /\ boot_w.bootstrap =
                     [boot_last.before.bootstrap EXCEPT !.initial_responses = seen]
                /\ boot_w.timer = boot_last.before.timer
  /\ (TransactionCall /\ boot_last.op = "recv_response"
        /\ LastTid \notin Active(boot_last.before)) =>
       /\ ~boot_last.ret
       /\ boot_w = boot_last.before

\* the address that had answered the initial request answered it again
C25_Witness ==
  /\ InitialCall
  /\ boot_last.op = "recv_response"
  /\ LastTid \in Active(boot_last.before)
  /\ boot_last.arg.addr \in boot_last.before.bootstrap.initial_responses
  /\ boot_w.bootstrap.current_bootstrap_bucket = 0

\* the sends of the initial round that succeed: one per router address and
\* one per starting node
InitialSends ==
  Cardinality(resolve(boot_w.bootstrap.routers, boot_env.dns) \cap boot_env.sent)
    + Cardinality(boot_w.bootstrap.starting_nodes \cap boot_env.sent)

\* the last call scheduled an IdleWakeUp duration milliseconds ahead, as one
\* of the entries it scheduled
WakeUpScheduled(duration) ==
  \E e \in WakeUps(boot_w.timer) :
    /\ e.key.deadline = duration
    /\ e.key.id >= boot_last.before.timer.next_id

\* C26: a start() that has a router or a starting node sets
\* initial_responses_expected to the number of initial sends that succeeded,
\* at most PINGS_PER_BUCKET; when none succeeded the state is
\* IdleBeforeReBootstrap, the NO_NETWORK_TIMEOUT wake-up is scheduled and the
\* attempt counter is 0.
C26_InitialSends ==
  (StartRan /\ (boot_w.bootstrap.routers # {} \/ boot_w.bootstrap.starting_nodes # {})) =>
    /\ boot_w.bootstrap.initial_responses_expected
         = (IF InitialSends < PINGS_PER_BUCKET THEN InitialSends ELSE PINGS_PER_BUCKET)
    /\ InitialSends = 0 =>
         /\ boot_w.bootstrap.state = IdleBeforeReBootstrap
         /\ WakeUpScheduled(NO_NETWORK_TIMEOUT)
         /\ boot_w.bootstrap.bootstrap_attempt = 0

\* more sends than PINGS_PER_BUCKET succeeded
C26_Witness ==
  /\ StartRan
  /\ InitialSends > PINGS_PER_BUCKET
  /\ boot_w.bootstrap.initial_responses_expected = PINGS_PER_BUCKET

\* no send succeeded although there was an address to send to
C26_WitnessNoSend ==
  /\ StartRan
  /\ boot_w.bootstrap.starting_nodes # {}
  /\ InitialSends = 0

\* the last call was recv_timeout with an IdleWakeUp
WakeUpCall == boot_phase = "started" /\ boot_last.op = "wake_up"

\* the last call registered a transaction id never handed out before as the
\* only outstanding one, for an initial round
AttemptStarted ==
  /\ Cardinality(Active(boot_w)) = 1
  /\ Active(boot_w) \cap BootGenerated(boot_last.before.bootstrap.id_generator) = {}
  /\ boot_w.bootstrap.current_bootstrap_bucket = 0
  /\ boot_w.bootstrap.initial_responses = {}

\* the last call scheduled nothing and changed nothing in the bootstrap
NothingChanged ==
  /\ ~boot_last.ret
  /\ SameBootstrap(boot_w.bootstrap, boot_last.before.bootstrap)
  /\ boot_w.timer.next_id = boot_last.before.timer.next_id
  /\ boot_w.socket = boot_last.before.socket

\* C27: an IdleWakeUp received while Bootstrapped starts a new attempt when
\* the routing table has fewer than GOOD_NODE_THRESHOLD Good nodes, and
\* otherwise changes nothing but to schedule the next check
\* PERIODIC_CHECK_TIMEOUT ahead; an IdleWakeUp received while Bootstrapping
\* changes nothing.
C27_PeriodicCheck ==
  WakeUpCall =>
    /\ (boot_last.before.bootstrap.state = Bootstrapped
          /\ GoodNodes < GOOD_NODE_THRESHOLD) => AttemptStarted
    /\ (boot_last.before.bootstrap.state = Bootstrapped
          /\ GoodNodes >= GOOD_NODE_THRESHOLD) =>
         /\ ~boot_last.ret
         /\ SameBootstrap(boot_w.bootstrap, boot_last.before.bootstrap)
         /\ WakeUpIn(PERIODIC_CHECK_TIMEOUT)
         /\ boot_w.timer.next_id = Timer_next_id(boot_last.before.timer)
    /\ boot_last.before.bootstrap.state = Bootstrapping => NothingChanged

\* the periodic check found fewer Good nodes than it takes
C27_Witness ==
  /\ WakeUpCall
  /\ boot_last.before.bootstrap.state = Bootstrapped
  /\ GoodNodes < GOOD_NODE_THRESHOLD
  /\ AttemptStarted

\* the periodic check found enough Good nodes, and a wake-up came while
\* Bootstrapping
C27_WitnessEnough ==
  /\ WakeUpCall
  /\ boot_last.before.bootstrap.state = Bootstrapped
  /\ GoodNodes >= GOOD_NODE_THRESHOLD

C27_WitnessBootstrapping ==
  /\ WakeUpCall
  /\ boot_last.before.bootstrap.state = Bootstrapping

\* the last response or transaction timeout carried a transaction id handed
\* out before that is not outstanding
StaleCall ==
  /\ TransactionCall
  /\ LastTid \in BootGenerated(boot_last.before.bootstrap.id_generator)
  /\ LastTid \notin Active(boot_last.before)

\* C28: a start() that has a router or a starting node leaves
\* current_bootstrap_bucket 0, initial_responses empty and active_message
\* holding one transaction id, never handed out before; a response or a
\* timeout with the transaction id of an earlier attempt returns false and
\* changes no field of the bootstrap.
C28_StartResets ==
  /\ (StartRan /\ (boot_w.bootstrap.routers # {} \/ boot_w.bootstrap.starting_nodes # {})) =>
       /\ AttemptStarted
       /\ \A m \in boot_w.socket : m.trans_id \in Active(boot_w)
  /\ StaleCall =>
       /\ ~boot_last.ret
       /\ SameBootstrap(boot_w.bootstrap, boot_last.before.bootstrap)
       /\ boot_w.timer.next_id = boot_last.before.timer.next_id

\* the answer to the first attempt's request came during a later attempt
C28_Witness ==
  /\ StaleCall
  /\ boot_last.op = "recv_response"
  /\ boot_w.bootstrap.state = Bootstrapping
  /\ boot_w.bootstrap.current_bootstrap_bucket = 0

\* the timeout of an earlier attempt's transaction fired after a start()
C28_WitnessTimeout ==
  /\ StaleCall
  /\ boot_last.op = "timeout"

\* the last add_node was given a node that is not Bad and whose handle is
\* that of a node of the bucket
SameHandleAdd ==
  /\ bucket_adds > 0
  /\ status(bucket_last.node) # Bad
  /\ \E i \in 1 .. MAX_BUCKET_SIZE :
       handle(bucket_last.before[i]) = handle(bucket_last.node)

\* the slot of that node: the first one of its handle
StoredIndex ==
  CHOOSE i \in 1 .. MAX_BUCKET_SIZE :
    /\ handle(bucket_last.before[i]) = handle(bucket_last.node)
    /\ \A j \in 1 .. (i - 1) : handle(bucket_last.before[j]) # handle(bucket_last.node)

\* C29: add_node with a node that is not Bad and has the handle of a stored
\* node N returns true and changes no other slot; N is replaced by the
\* incoming node, liveness fields and all, when N is not Good, whatever the
\* status of the incoming node; and N is left as it is when N is Good and
\* the incoming node is not.
C29_SameHandleReplaced ==
  SameHandleAdd =>
    LET stored == bucket_last.before[StoredIndex]
    IN  /\ bucket_last.ret
        /\ \A j \in 1 .. MAX_BUCKET_SIZE :
             j # StoredIndex => bucket_last.after[j] = bucket_last.before[j]
        /\ status(stored) # Good => bucket_last.after[StoredIndex] = bucket_last.node
        /\ (status(stored) = Good /\ status(bucket_last.node) # Good) =>
             bucket_last.after[StoredIndex] = stored

\* C30: add_node with a Good node that has the handle of a stored Good node
\* takes last_response from the incoming node, keeps last_request and
\* last_local_request of the stored one and sets refresh_requests to 0.
C30_GoodGoodMerge ==
  LET stored == bucket_last.before[StoredIndex]
      merged == bucket_last.after[StoredIndex]
  IN  (SameHandleAdd /\ status(stored) = Good /\ status(bucket_last.node) = Good) =>
        /\ handle(merged) = handle(stored)
        /\ merged.last_response = bucket_last.node.last_response
        /\ merged.last_request = stored.last_request
        /\ merged.last_local_request = stored.last_local_request
        /\ merged.refresh_requests = 0
        /\ bucket_last.ret

\* the stored Good node and the incoming Good node differ in last_response,
\* last_request and last_local_request
C30_Witness ==
  LET stored == bucket_last.before[StoredIndex]
  IN  /\ SameHandleAdd
      /\ status(stored) = Good
      /\ status(bucket_last.node) = Good
      /\ stored.last_response # bucket_last.node.last_response
      /\ stored.last_request # bucket_last.node.last_request
      /\ stored.last_local_request # bucket_last.node.last_local_request


(***************************************************************************)
(* Properties of the routing table under colliding adds.                   *)
(***************************************************************************)
\* the last call was add_node
AddCall == table_last.op = "add_node"

\* the bucket the node of the last add_node call was first tried in
AddIndex ==
  bucket_placement(leading_bit_count(table_last.before.node_id, table_last.node.id),
                   Len(table_last.before.buckets))

\* the last add_node call got as far as Bucket::add_node, which returned false
AddFailed ==
  /\ AddCall
  /\ status(table_last.node) # Bad
  /\ table_last.node.id # table_last.before.node_id
  /\ ~Bucket_add_node(table_last.before.buckets[AddIndex + 1], table_last.node).ok

\* the number of splits the last call made: each split pops one bucket and
\* pushes two
Splits == Len(table.buckets) - Len(table_last.before.buckets)

\* C31: the bucket count starts at 1, never decreases and never exceeds
\* MAX_BUCKETS; an add_node call splits only when the add into the last bucket
\* failed while fewer than MAX_BUCKETS buckets existed; an add that fails in a
\* bucket that is not the last one changes nothing (the node is dropped); and
\* every add_node call ends after at most MAX_BUCKETS - 1 splits.
C31_SplitRule ==
  /\ Len(table.buckets) >= 1
  /\ Len(table.buckets) <= MAX_BUCKETS
  /\ (table_last.op = "new") => Len(table.buckets) = 1
  /\ Splits >= 0
  /\ Splits <= MAX_BUCKETS - 1
  /\ (Splits > 0) =>
       /\ AddFailed
       /\ AddIndex = Len(table_last.before.buckets) - 1
       /\ Len(table_last.before.buckets) < MAX_BUCKETS
  /\ (AddFailed /\ AddIndex < Len(table_last.before.buckets) - 1) =>
       table = table_last.before

\* the node is not among the pingable nodes of the table
NotStored(node) ==
  \A i \in 1 .. Len(Flatten(table.buckets)) :
    is_ping_able(Flatten(table.buckets)[i]) => handle(Flatten(table.buckets)[i]) # handle(node)

\* one add_node call took the table from one bucket to MAX_BUCKETS buckets,
\* every node sharing the longest prefix with the local id, and the node added
\* found the last bucket full again
C31_Witness ==
  /\ AddFailed
  /\ Len(table_last.before.buckets) = 1
  /\ Splits = MAX_BUCKETS - 1
  /\ NotStored(table_last.node)

\* a node was dropped at a full bucket that is not the last one
C31_WitnessDropped ==
  /\ AddFailed
  /\ AddIndex < Len(table_last.before.buckets) - 1
  /\ NotStored(table_last.node)

\* the last add_node call was made with a Bad node or with a node whose id is
\* the id of the table
Rejected ==
  /\ AddCall
  /\ (status(table_last.node) = Bad \/ table_last.node.id = table_last.before.node_id)

\* the table holds a Good or Questionable node
Populated ==
  \E i \in 1 .. Len(Flatten(table.buckets)) : is_ping_able(Flatten(table.buckets)[i])

\* C32: add_node with a Bad node or with a node whose id is the table's own id
\* changes nothing, neither the bucket count nor any slot, and closest_nodes
\* returns no Bad node and no node with the table's id, for any target (the
\* iteration depends on the target through its start index only, and
\* RemoteIds has a target for every start index); a handle that was not
\* stored before such a call is not returned after it.
C32_NoOpAdd ==
  /\ Rejected => table = table_last.before
  /\ \A target \in RemoteIds :
       LET out == closest_nodes(table, target)
       IN  \A i \in 1 .. Len(out) :
             /\ status(out[i]) # Bad
             /\ out[i].id # table.node_id
             /\ (Rejected /\ handle(out[i]) = handle(table_last.node)) =>
                  \E j \in 1 .. Len(Flatten(table_last.before.buckets)) :
                    Flatten(table_last.before.buckets)[j] = out[i]

\* a Bad node was handed to a table that holds nodes
C32_Witness ==
  /\ Rejected
  /\ status(table_last.node) = Bad
  /\ Populated

\* a Good node with the table's own id was handed to a table that holds nodes
C32_WitnessOwnId ==
  /\ Rejected
  /\ status(table_last.node) = Good
  /\ Populated

(***************************************************************************)
(* Properties of the announce storage: its two structures.                 *)
(***************************************************************************)
\* the (info hash, address) pairs of the items stored under the keys
StoredPairs(map) ==
  {<<k, map[k][i].expiration.address>> :
     <<k, i>> \in {x \in (DOMAIN map) \X (1 .. MAX_ITEMS_STORED + 1) : x[2] <= Len(map[x[1]])}}

\* the (info hash, address) pairs of the expiration list
ExpiringPairs(exp) == {<<exp[i].info_hash, exp[i].address>> : i \in 1 .. Len(exp)}

\* C33: the expiration list and the info hash mapping hold the same
\* (info hash, address) pairs, each pair once and every item under its own
\* info hash; no key maps to an empty list; the expiration list is in the
\* order of insertion (no entry is older than one before it), and after an
\* add or a find no expired entry is left in it.
C33_TwoStructures ==
  /\ StoredPairs(storage) = ExpiringPairs(expires)
  /\ Cardinality(ExpiringPairs(expires)) = Len(expires)
  /\ StoredCount(storage) = Len(expires)
  /\ \A k \in DOMAIN storage :
       /\ storage[k] # <<>>
       /\ \A i \in 1 .. Len(storage[k]) : storage[k][i].expiration.info_hash = k
  /\ \A i \in 1 .. Len(expires) : \A j \in (i + 1) .. Len(expires) :
       expires[i].inserted >= expires[j].inserted
  /\ storage_last.op \in {"add", "find"} =>
       \A i \in 1 .. Len(expires) : ~is_expired(expires[i])

\* a call pruned the expired head of an expiration list that had two entries
\* and left the entry that was not expired
C33_Witness ==
  /\ storage_last.op \in {"add", "find"}
  /\ Len(storage_last.before.expires) = 2
  /\ NumExpired(storage_last.before.expires) = 1
  /\ Len(expires) >= 1
  /\ expires[1].inserted > 0

\* a renewal moved the oldest entry of two to the end of the expiration list
C33_WitnessRenewed ==
  /\ storage_last.op = "add"
  /\ Len(storage_last.before.expires) = 2
  /\ NumExpired(storage_last.before.expires) = 0
  /\ ItemExpiration_eq(storage_last.before.expires[1], expires[2])
  /\ expires[1].inserted > 0

(***************************************************************************)
(* Properties of the bucket: which slot a new node takes.                  *)
(***************************************************************************)
\* the recorded add_node call was made with a Good node whose handle no slot
\* held, on a bucket with a Bad slot
GoodIntoBadSlot ==
  /\ bucket_adds > 0
  /\ status(bucket_last.node) = Good
  /\ \A i \in 1 .. MAX_BUCKET_SIZE : handle(bucket_last.before[i]) # handle(bucket_last.node)
  /\ \E i \in 1 .. MAX_BUCKET_SIZE : status(bucket_last.before[i]) = Bad

\* C37: add_node of a Good node with a new handle, on a bucket that has a Bad
\* slot (a placeholder or a dead node), puts the node in a Bad slot and leaves
\* every other slot as it was: no Questionable node is overwritten.
C37_BadSlotFirst ==
  GoodIntoBadSlot =>
    \E i \in 1 .. MAX_BUCKET_SIZE :
      /\ status(bucket_last.before[i]) = Bad
      /\ bucket_last.after[i] = bucket_last.node
      /\ \A j \in (1 .. MAX_BUCKET_SIZE) \ {i} : bucket_last.after[j] = bucket_last.before[j]

(***************************************************************************)
(* Properties of the routing table: handles and splits.                    *)
(***************************************************************************)
\* the pingable nodes of a table
Pingable(t) == SelectSeq(Flatten(t.buckets), is_ping_able)

\* C38: no NodeHandle is in more than one Good or Questionable slot of the
\* routing table, in one bucket or in two, after add_node calls with splits,
\* requests to the nodes and the passing of time.
C38_OneSlotPerHandle ==
  \A i \in 1 .. Len(Pingable(table)) :
    Count(Pingable(table), handle(Pingable(table)[i])) = 1

\* a call split a full bucket, its nodes were added again to the new buckets
\* and the table holds them and the node of the call
C38_Witness ==
  /\ AddCall
  /\ Splits > 0
  /\ Len(Pingable(table_last.before)) = MAX_BUCKET_SIZE
  /\ Len(Pingable(table)) = MAX_BUCKET_SIZE + 1

\* a handle whose stored node had turned Questionable, or Bad after two
\* requests, was added again
C38_WitnessAgain ==
  /\ AddCall
  /\ \E i \in 1 .. Len(Flatten(table_last.before.buckets)) :
       /\ handle(Flatten(table_last.before.buckets)[i]) = handle(table_last.node)
       /\ Flatten(table_last.before.buckets)[i].refresh_requests = MAX_REFRESH_REQUESTS
  /\ Count(Pingable(table), handle(table_last.node)) = 1

\* the node is in a slot of one of the buckets of t from index from_index on
StoredFrom(t, node, from_index) ==
  \E b \in (from_index + 1) .. Len(t.buckets) :
    \E i \in 1 .. MAX_BUCKET_SIZE : t.buckets[b][i] = node

\* C39: when an add_node call splits the last bucket, every node that was Good
\* or Questionable in it is stored afterwards in one of the buckets that took
\* its place, and the buckets before it are as they were: only the node of the
\* call may end up not stored.
C39_SplitKeepsLiveNodes ==
  (AddCall /\ Splits > 0) =>
    LET before == table_last.before
        n == Len(before.buckets)
    IN  /\ \A i \in 1 .. MAX_BUCKET_SIZE :
             is_ping_able(before.buckets[n][i]) =>
               StoredFrom(table, before.buckets[n][i], n - 1)
        /\ \A b \in 1 .. (n - 1) : table.buckets[b] = before.buckets[b]

\* the slots of the table whose node has the status s
SlotsWith(t, s) ==
  {x \in (1 .. Len(t.buckets)) \X (1 .. MAX_BUCKET_SIZE) : status(t.buckets[x[1]][x[2]]) = s}

\* C40: num_good_nodes() is the number of Good nodes stored in the buckets of
\* the table and num_questionable_node() the number of Questionable ones, for
\* tables of 1 to MAX_BUCKETS buckets.
C40_CountsMatch ==
  /\ num_good_nodes(table) = Cardinality(SlotsWith(table, Good))
  /\ num_questionable_node(table) = Cardinality(SlotsWith(table, Questionable))

\* a table of MAX_BUCKETS buckets holding Good and Questionable nodes
C40_Witness ==
  /\ Len(table.buckets) = MAX_BUCKETS
  /\ SlotsWith(table, Good) # {}
  /\ SlotsWith(table, Questionable) # {}

\* a table with fewer buckets, holding Good and Questionable nodes in its last
\* bucket and in a bucket before it
C40_WitnessAssorted ==
  /\ Len(table.buckets) > 1
  /\ Len(table.buckets) < MAX_BUCKETS
  /\ \E x \in SlotsWith(table, Good) \cup SlotsWith(table, Questionable) :
       x[1] = Len(table.buckets)
  /\ \E x \in SlotsWith(table, Good) \cup SlotsWith(table, Questionable) :
       x[1] < Len(table.buckets)
  /\ SlotsWith(table, Good) # {}
  /\ SlotsWith(table, Questionable) # {}

(***************************************************************************)
(* Properties of the bootstrap: what is pending in the timer.              *)
(***************************************************************************)
\* C35: at most one IdleWakeUp entry is pending in the timer, whatever
\* start(), the responses and the timeouts have been.
C35_OneWakeUp == Cardinality(WakeUps(boot_w.timer)) <= 1

\* an IdleWakeUp is pending
WakeUpPending == WakeUps(boot_w.timer) # {}

\* every outstanding transaction id has its Transaction timeout pending
TransactionsPending ==
  \A trans_id \in Active(boot_w) :
    \E e \in TimerEntries(boot_w.timer) :
      /\ e.key = boot_w.bootstrap.active_message[trans_id]
      /\ e.value = Transaction(trans_id)

\* C36: after the first start() the bootstrap always has something to wake it:
\* in IdleBeforeReBootstrap an IdleWakeUp is pending; in Bootstrapping
\* active_message is not empty and every transaction id in it has its
\* Transaction timeout pending; in Bootstrapped, with routers or starting
\* nodes configured, an IdleWakeUp is pending.
C36_NeverStalls ==
  boot_phase = "started" =>
    /\ boot_w.bootstrap.state = IdleBeforeReBootstrap => WakeUpPending
    /\ boot_w.bootstrap.state = Bootstrapping =>
         (Active(boot_w) # {} /\ TransactionsPending)
    /\ (/\ boot_w.bootstrap.state = Bootstrapped
        /\ (boot_w.bootstrap.routers # {} \/ boot_w.bootstrap.starting_nodes # {}))
         => WakeUpPending

\* a round of requests to the nodes of the table is out, two or more of them
\* not answered yet
C36_Witness ==
  /\ boot_phase = "started"
  /\ boot_w.bootstrap.state = Bootstrapping
  /\ boot_w.bootstrap.current_bootstrap_bucket > 0
  /\ Cardinality(Active(boot_w)) >= 2

\* an attempt went past the last bucket without enough Good nodes
C36_WitnessIdle ==
  /\ boot_phase = "started"
  /\ boot_w.bootstrap.state = IdleBeforeReBootstrap
  /\ boot_last.before.bootstrap.state = Bootstrapping
  /\ WakeUpPending

\* a periodic check found enough Good nodes in a table bootstrapped from
\* starting nodes
C36_WitnessBootstrapped ==
  /\ boot_phase = "started"
  /\ boot_w.bootstrap.state = Bootstrapped
  /\ boot_w.bootstrap.starting_nodes # {}
  /\ boot_last.op = "wake_up"
  /\ boot_last.before.bootstrap.state = Bootstrapped
  /\ WakeUpPending

\* the slots of a table that hold the handle h as a Good or Questionable node
SlotsOf(t, h) ==
  {<<b, i>> \in (1 .. Len(t.buckets)) \X (1 .. MAX_BUCKET_SIZE) :
     is_ping_able(t.buckets[b][i]) /\ handle(t.buckets[b][i]) = h}

\* the nodes a refresh may ask: Questionable and not asked within the last
\* 30 seconds
Refreshable(n) ==
  /\ status(n) = Questionable
  /\ (n.last_local_request = NONE \/ n.last_local_request >= 30 * 1000)

RefreshTick == refresh_last.op = "continue_refresh"

\* C34: every call of continue_refresh handles the one bucket index that
\* follows the index of the call before, from 0 up to MAX_BUCKETS - 1 and
\* then 0 again, so that flip_bit is never given MAX_BUCKETS or more; it
\* asks at most 4 nodes, each of them stored as a Questionable node that was
\* not asked within the last 30 seconds, records a local request on each of
\* them and on no other node, and leaves exactly one TableRefresh entry in
\* the timer, 6 seconds ahead.
C34_RefreshTick ==
  RefreshTick =>
    LET before == refresh_last.before
        nodes == refresh_last.nodes
        asked == {nodes[i] : i \in 1 .. Len(nodes)}
        old == before.routing_table.buckets
        new == refresh_w.routing_table.buckets
    IN  /\ ~refresh_last.panicked
        /\ refresh_last.index = (refresh_calls - 1) % MAX_BUCKETS
        /\ refresh_last.index < MAX_BUCKETS
        /\ refresh_w.refresh.current_refresh_bucket = refresh_last.index + 1
        /\ Len(nodes) <= 4
        /\ Cardinality(asked) = Len(nodes)
        /\ Len(new) = Len(old)
        /\ \A h \in asked :
             /\ Cardinality(SlotsOf(before.routing_table, h)) = 1
             /\ \A p \in SlotsOf(before.routing_table, h) :
                  /\ Refreshable(old[p[1]][p[2]])
                  /\ new[p[1]][p[2]] =
                       [old[p[1]][p[2]] EXCEPT
                          !.last_local_request = 0,
                          !.refresh_requests = old[p[1]][p[2]].refresh_requests + 1]
        /\ \A b \in 1 .. Len(old), i \in 1 .. MAX_BUCKET_SIZE :
             (~is_ping_able(old[b][i]) \/ handle(old[b][i]) \notin asked)
               => new[b][i] = old[b][i]
        /\ \A m \in refresh_w.socket : \E h \in asked : m.addr = h[2]
        /\ Cardinality(refresh_w.socket) <= Len(nodes)
        /\ TimerEntries(before.timer) = {}
        /\ Cardinality(TimerEntries(refresh_w.timer)) = 1
        /\ \A e \in TimerEntries(refresh_w.timer) :
             e.value = TableRefreshCheck /\ e.key.deadline = 6000

\* the Questionable nodes of a table that a refresh may ask
RefreshableSlots(t) ==
  {<<b, i>> \in (1 .. Len(t.buckets)) \X (1 .. MAX_BUCKET_SIZE) :
     Refreshable(t.buckets[b][i])}

\* a call that found more nodes to ask than it asks at once
C34_Witness ==
  /\ RefreshTick
  /\ Cardinality(RefreshableSlots(refresh_last.before.routing_table)) > 4
  /\ Len(refresh_last.nodes) = 4
  /\ Cardinality(refresh_w.socket) = 4

\* the call after the one that handled the last bucket index
C34_WitnessWrap ==
  /\ RefreshTick
  /\ refresh_last.before.refresh.current_refresh_bucket = MAX_BUCKETS
  /\ refresh_last.index = 0
  /\ refresh_w.refresh.current_refresh_bucket = 1

\* a call that passed over a Questionable node asked less than 30 seconds
\* before, and over a Good one, and asked another node
C34_WitnessRecent ==
  /\ RefreshTick
  /\ refresh_last.nodes # <<>>
  /\ \E b \in 1 .. Len(refresh_last.before.routing_table.buckets),
        i \in 1 .. MAX_BUCKET_SIZE :
       LET n == refresh_last.before.routing_table.buckets[b][i]
       IN  /\ status(n) = Questionable
           /\ n.last_local_request # NONE
           /\ n.last_local_request < 30 * 1000
  /\ \E b \in 1 .. Len(refresh_last.before.routing_table.buckets),
        i \in 1 .. MAX_BUCKET_SIZE :
       status(refresh_last.before.routing_table.buckets[b][i]) = Good

\* a node asked 30 seconds before and not heard of since is asked again
C34_WitnessAgain ==
  /\ RefreshTick
  /\ \E i \in 1 .. Len(refresh_last.nodes) :
       \E p \in SlotsOf(refresh_last.before.routing_table, refresh_last.nodes[i]) :
         LET n == refresh_last.before.routing_table.buckets[p[1]][p[2]]
         IN  n.last_local_request = 30 * 1000 /\ n.refresh_requests = 1

\* a call on a table with no node to ask, a send failing
C34_WitnessNone ==
  /\ RefreshTick
  /\ refresh_calls > 1
  /\ refresh_last.nodes = <<>>
  /\ refresh_w.socket = {}
=============================================================================
